---- MODULE Spec2Model ----
(***************************************************************************)
(* Model of the continuous speech-capture and chunking pipeline:           *)
(*   SpeechRecognitionService (the listening supervisor) and               *)
(*   TranslatorComponent (speech buffer, segments, display strings).       *)
(*                                                                         *)
(* Text is a sequence of characters, a character is a string.  The only    *)
(* whitespace character the model draws is the space.                      *)
(***************************************************************************)
EXTENDS Integers, Sequences, FiniteSets, TLC

VARIABLES
  svc,      \* SpeechRecognitionService: its fields, the engine it wraps, its timeouts,
            \* and what its last handler emitted and called
  cmp,      \* TranslatorComponent: its fields, its timeouts, its translate requests
  hist,     \* what was heard and what was dispatched (observation only)
  env,      \* what the environment of this run is drawn from (fixed by Init)
  tIn,      \* the input drawn for a text function
  tOut      \* the last result of a text function ([op |-> "none"] before)

vars == <<svc, cmp, hist, env, tIn, tOut>>

\* ------------------------------------------------------------------ text

Max(S) == CHOOSE x \in S : \A y \in S : y <= x

Min(S) == CHOOSE x \in S : \A y \in S : x <= y

\* JS whitespace (String.prototype.trim, /\s/)
IsSpace(ch) == ch = " "

\* the positions of text s that hold no whitespace
inkAt(s) == {i \in 1..Len(s) : ~IsSpace(s[i])}

trimStart(s) == IF inkAt(s) = {} THEN <<>> ELSE SubSeq(s, Min(inkAt(s)), Len(s))

trimEnd(s) == IF inkAt(s) = {} THEN <<>> ELSE SubSeq(s, 1, Max(inkAt(s)))

\* String.prototype.trim
trim(s) == trimEnd(trimStart(s))

\* text.replace(/\s+/g, ' '): of every run of whitespace the first character
\* stays, as a space
collapseWhitespace(s) ==
  LET positions == [i \in 1..Len(s) |-> i]
      kept == SelectSeq(positions, LAMBDA i : ~IsSpace(s[i]) \/ i = 1 \/ ~IsSpace(s[i - 1]))
  IN  [k \in 1..Len(kept) |-> IF IsSpace(s[kept[k]]) THEN " " ELSE s[kept[k]]]

\* the characters that are not whitespace, in order
NonSpace(s) == SelectSeq(s, LAMBDA ch : ~IsSpace(ch))

\* the concatenation of a list of texts
RECURSIVE Flatten(_)
Flatten(ss) == IF ss = <<>> THEN <<>> ELSE Head(ss) \o Flatten(Tail(ss))

\* Array.prototype.join(sep)
RECURSIVE joinWith(_, _)
joinWith(ss, sep) ==
  IF ss = <<>> THEN <<>>
  ELSE IF Len(ss) = 1 THEN ss[1]
  ELSE ss[1] \o sep \o joinWith(Tail(ss), sep)

\* String.prototype.lastIndexOf(ch): 0-based, -1 when absent
lastIndexOf(s, ch) ==
  LET at == {i \in 1..Len(s) : s[i] = ch}
  IN  IF at = {} THEN -1 ELSE Max(at) - 1

\* String.prototype.slice(from, to) with 0-based from, exclusive to
slice(s, from, to) == SubSeq(s, from + 1, Min({to, Len(s)}))

\* (a changed isSentenceTerminator: only the ASCII terminators)
isSentenceTerminatorAscii(ch) ==
  \/ ch = "."
  \/ ch = "!"
  \/ ch = "?"

isSentenceTerminator(ch) ==
  \/ ch = "."
  \/ ch = "!"
  \/ ch = "?"
  \/ ch = "u3002"
  \/ ch = "uFF01"
  \/ ch = "uFF1F"

\* extractCompletedSentences: the loop over the characters, a sentence at a time.
\* current grows up to the next terminator, is trimmed, pushed and emptied.
RECURSIVE extractLoop(_, _)
extractLoop(cleaned, completed) ==
  LET terminators == {i \in 1..Len(cleaned) : isSentenceTerminator(cleaned[i])}
  IN  IF terminators = {} THEN [completed |-> completed, remainder |-> trim(cleaned)]
      ELSE LET s == trim(SubSeq(cleaned, 1, Min(terminators)))
           IN  extractLoop(SubSeq(cleaned, Min(terminators) + 1, Len(cleaned)),
                           IF s # <<>> THEN Append(completed, s) ELSE completed)

extractCompletedSentences(text) ==
  LET cleaned == trim(collapseWhitespace(text))
  IN  IF cleaned = <<>> THEN [completed |-> <<>>, remainder |-> <<>>]
      ELSE extractLoop(cleaned, <<>>)

joinWithSpace(a, b) ==
  LET left  == trim(a)
      right == trim(b)
  IN  IF left = <<>> THEN right
      ELSE IF right = <<>> THEN left
      ELSE left \o <<" ">> \o right

\* (a changed test: a space at exactly six tenths of the budget counts too)
pastSixTenthsOrAt(lastSpace, maxChars) == 10 * lastSpace >= 6 * maxChars

\* lastSpace > maxChars * 0.6, in integers
pastSixTenths(lastSpace, maxChars) == 10 * lastSpace > 6 * maxChars

truncateForQuery(text, maxChars) ==
  LET t == trim(text)
  IN  IF Len(t) <= maxChars THEN t
      ELSE LET sl        == slice(t, 0, maxChars)
               lastSpace == lastIndexOf(sl, " ")
           IN  IF pastSixTenths(lastSpace, maxChars)
                 THEN trim(slice(sl, 0, lastSpace))
                 ELSE trim(sl)

RECURSIVE chunkLoop(_, _, _)
chunkLoop(remaining, maxChars, chunks) ==
  IF Len(remaining) > maxChars
    THEN LET sl        == slice(remaining, 0, maxChars)
             lastSpace == lastIndexOf(sl, " ")
             cutAt     == IF pastSixTenths(lastSpace, maxChars) THEN lastSpace ELSE maxChars
             chunk     == trim(slice(remaining, 0, cutAt))
         IN  chunkLoop(trim(slice(remaining, cutAt, Len(remaining))), maxChars,
                       IF chunk # <<>> THEN Append(chunks, chunk) ELSE chunks)
    ELSE IF remaining # <<>> THEN Append(chunks, remaining) ELSE chunks

\* (a changed chunkText: a text longer than the limit is not split)
chunkTextWhole(text, maxChars) ==
  LET t == trim(text)
  IN  IF t = <<>> THEN <<>> ELSE <<t>>

chunkText(text, maxChars) ==
  LET t == trim(text)
  IN  IF t = <<>> THEN <<>>
      ELSE IF Len(t) <= maxChars THEN <<t>>
      ELSE chunkLoop(t, maxChars, <<>>)

\* packIntoChunks: the test on the candidate
\* (a changed comparison: a candidate of exactly maxChars characters does not fit)
fitsStrictly(candidate, maxChars) == Len(candidate) < maxChars

fits(candidate, maxChars) == Len(candidate) <= maxChars

\* packIntoChunks: the local flush()
packFlush(out, buf, maxChars) ==
  LET t == trim(buf)
  IN  IF t # <<>> THEN out \o chunkText(t, maxChars) ELSE out

RECURSIVE packLoop(_, _, _, _)
packLoop(parts, out, buf, maxChars) ==
  IF parts = <<>> THEN packFlush(out, buf, maxChars)
  ELSE LET p == trim(Head(parts))
       IN  IF p = <<>> THEN packLoop(Tail(parts), out, buf, maxChars)
           ELSE IF buf = <<>> THEN packLoop(Tail(parts), out, p, maxChars)
           ELSE LET candidate == trim(buf \o <<" ">> \o p)
                IN  IF fits(candidate, maxChars)
                      THEN packLoop(Tail(parts), out, candidate, maxChars)
                      ELSE packLoop(Tail(parts), packFlush(out, buf, maxChars), p, maxChars)

packIntoChunks(parts, maxChars) == packLoop(parts, <<>>, <<>>, maxChars)

\* the limit flushSpeechBuffer and appendSegment pass
QueryMaxChars == 450

\* flushSpeechBuffer: what it hands to packIntoChunks
\* (changed choices: the remainder is never, or always, handed over)
flushToTranslateCompleted(input, force) == extractCompletedSentences(input).completed

flushToTranslateAlways(input, force) ==
  LET extracted == extractCompletedSentences(input)
      remainder == trim(extracted.remainder)
  IN  extracted.completed \o (IF remainder # <<>> THEN <<remainder>> ELSE <<>>)

flushToTranslate(input, force) ==
  LET extracted == extractCompletedSentences(input)
      remainder == trim(extracted.remainder)
  IN  IF force
        THEN extracted.completed \o (IF remainder # <<>> THEN <<remainder>> ELSE <<>>)
        ELSE extracted.completed

\* flushSpeechBuffer: the pieces it passes to appendSegment, in order
flushPieces(speechBuffer, force) ==
  LET input == trim(speechBuffer)
  IN  IF input = <<>> THEN <<>>
      ELSE LET toTranslate == flushToTranslate(input, force)
           IN  IF Len(toTranslate) > 0 THEN packIntoChunks(toTranslate, QueryMaxChars)
               ELSE <<>>

\* flushSpeechBuffer: the speechBuffer it leaves
flushRemainder(speechBuffer, force) ==
  LET input == trim(speechBuffer)
  IN  IF input = <<>> THEN speechBuffer
      ELSE IF force THEN <<>>
      ELSE trim(extractCompletedSentences(input).remainder)

\* ------------------------------------------------------------- timeouts

\* setTimeout handles; a handle field holds 0 for null
MaxTimerIds == 3

TimerIds == 1..MaxTimerIds

\* setTimeout: a handle no outstanding timeout has
NewTimerId(outstanding) ==
  IF TimerIds \ outstanding = {} THEN MaxTimerIds ELSE Min(TimerIds \ outstanding)

\* ------------------------------------------- SpeechRecognitionService

Null == "null"

CriticalErrors == {"not-allowed", "audio-capture", "service-not-allowed"}

ListeningDuration == 120000

ErrorEvent(kind) == [stream |-> "error", kind |-> kind, text |-> <<>>, flag |-> FALSE]

ListeningEvent(value) == [stream |-> "isListening", kind |-> "", text |-> <<>>, flag |-> value]

TranscriptEvent(text, isFinal) ==
  [stream |-> "transcript", kind |-> "", text |-> text, flag |-> isFinal]

\* Subject.next: the subscribers run before next() returns (see Deliver)
emit(s, event) == [s EXCEPT !.emits = Append(@, event)]

\* isListeningSubject.next(value): a BehaviorSubject keeps the value
emitListening(s, value) == emit([s EXCEPT !.isListeningSubject = value], ListeningEvent(value))

\* the state after the constructor, on a device class and with or without an engine
ServiceInit(mobile, available) ==
  [ recognition          |-> available,
    engine               |-> "inactive",
    isListeningSubject   |-> FALSE,
    isManuallyStopped    |-> FALSE,
    listeningTimeout     |-> 0,
    listeningOut         |-> {},
    shouldBeListening    |-> FALSE,
    isRecognizing        |-> FALSE,
    restartTimeout       |-> 0,
    restartOut           |-> {},
    restartDelay         |-> 0,
    restartAttempts      |-> 0,
    isMobileDevice       |-> mobile,
    lastNonCriticalError |-> Null,
    permissionPending    |-> 0,
    timeoutAfterPause    |-> FALSE,
    armedTimeout         |-> FALSE,
    emits                |-> <<>>,
    calls                |-> <<>> ]

\* a handler starts with nothing emitted and nothing called
Fresh(s) == [s EXCEPT !.emits = <<>>, !.calls = <<>>]

\* The engine is "inactive", "starting" (start() was called), "active" (onstart was
\* delivered), "stopping" (an active session is ending: last results may come,
\* onend follows) or "ending" (a session that never became active is ending).
engineEnding(engine) ==
  IF engine = "active" THEN "stopping"
  ELSE IF engine = "starting" THEN "ending"
  ELSE engine

\* recognition.stop(): ends a session, onend follows; nothing without a session
engineStop(s) == [s EXCEPT !.calls = Append(@, "stop"), !.engine = engineEnding(@)]

\* (a changed clearListeningTimeout: the armed timeout is not cancelled)
clearListeningTimeoutKeep(s) == s

clearListeningTimeout(s) ==
  IF s.listeningTimeout # 0
    THEN [s EXCEPT !.listeningOut = @ \ {s.listeningTimeout}, !.listeningTimeout = 0]
    ELSE s

startListeningTimeout(s) ==
  LET c  == clearListeningTimeout(s)
      id == NewTimerId(c.listeningOut)
  IN  [c EXCEPT !.listeningOut = @ \cup {id}, !.listeningTimeout = id,
                !.armedTimeout = TRUE]

clearRestartTimeout(s) ==
  IF s.restartTimeout # 0
    THEN [s EXCEPT !.restartOut = @ \ {s.restartTimeout}, !.restartTimeout = 0]
    ELSE s

RestartBaseMobile == 1500

RestartBaseDesktop == 300

RestartStepMobile == 500

RestartStepDesktop == 250

RestartCapMobile == 5000

RestartCapDesktop == 2000

NoSpeechPenalty == 1000

\* (a changed delay: the no-speech penalty is left out)
restartDelayNoPenalty(s) ==
  LET base == IF s.isMobileDevice THEN RestartBaseMobile ELSE RestartBaseDesktop
      step == IF s.isMobileDevice THEN RestartStepMobile ELSE RestartStepDesktop
      cap  == IF s.isMobileDevice THEN RestartCapMobile ELSE RestartCapDesktop
  IN  Min({base + s.restartAttempts * step, cap})

\* scheduleRestart: the delay it computes
restartDelayOf(s) ==
  LET base == IF s.isMobileDevice THEN RestartBaseMobile ELSE RestartBaseDesktop
      step == IF s.isMobileDevice THEN RestartStepMobile ELSE RestartStepDesktop
      cap  == IF s.isMobileDevice THEN RestartCapMobile ELSE RestartCapDesktop
      extraNoSpeechPenalty ==
        IF s.isMobileDevice /\ s.lastNonCriticalError = "no-speech" THEN NoSpeechPenalty ELSE 0
  IN  Min({base + s.restartAttempts * step + extraNoSpeechPenalty, cap})

scheduleRestart(s) ==
  LET c     == clearRestartTimeout(s)
      delay == restartDelayOf(c)
      id    == NewTimerId(c.restartOut)
  IN  [c EXCEPT !.restartAttempts = @ + 1,
                !.restartOut = @ \cup {id}, !.restartTimeout = id, !.restartDelay = delay]

\* (a changed startRecognitionSafely: the throw is caught and nothing is scheduled)
startRecognitionSafelyDrop(s) ==
  IF ~s.recognition THEN s
  ELSE IF s.isRecognizing THEN s
  ELSE LET c == [s EXCEPT !.calls = Append(@, "start")]
       IN  IF c.engine = "inactive" THEN [c EXCEPT !.engine = "starting"]
           ELSE c

\* recognition.start() throws unless the engine is idle; the throw is caught
startRecognitionSafely(s) ==
  IF ~s.recognition THEN s
  ELSE IF s.isRecognizing THEN s
  ELSE LET c == [s EXCEPT !.calls = Append(@, "start")]
       IN  IF c.engine = "inactive" THEN [c EXCEPT !.engine = "starting"]
           ELSE scheduleRestart(c)

\* (a changed stopListening: the restart timeout is not cancelled)
stopListeningKeepRestart(s) ==
  LET a == [s EXCEPT !.isManuallyStopped = TRUE, !.shouldBeListening = FALSE]
      b == clearListeningTimeout(a)
  IN  IF b.recognition /\ b.isListeningSubject THEN engineStop(b) ELSE b

\* (a changed stopListening: it emits isListening false itself, each time)
stopListeningEmits(s) ==
  LET a == [s EXCEPT !.isManuallyStopped = TRUE, !.shouldBeListening = FALSE]
      b == clearListeningTimeout(clearRestartTimeout(a))
      c == IF b.recognition /\ b.isListeningSubject THEN engineStop(b) ELSE b
  IN  emit(c, ListeningEvent(FALSE))

\* (a changed stopListening: the engine is stopped, the intent to listen is kept)
stopListeningEngineOnly(s) ==
  IF s.recognition /\ s.isListeningSubject THEN engineStop(s) ELSE s

stopListening(s) ==
  LET a == [s EXCEPT !.isManuallyStopped = TRUE, !.shouldBeListening = FALSE]
      b == clearListeningTimeout(clearRestartTimeout(a))
  IN  IF b.recognition /\ b.isListeningSubject THEN engineStop(b) ELSE b

\* (a changed onresult: the inactivity timeout is re-armed whatever shouldBeListening is)
onresultAlwaysArms(s, finalTranscript, interimTranscript) ==
  LET a == IF trim(finalTranscript) # <<>>
             THEN emit(s, TranscriptEvent(trim(finalTranscript), TRUE)) ELSE s
      b == IF trim(interimTranscript) # <<>>
             THEN emit(a, TranscriptEvent(trim(interimTranscript), FALSE)) ELSE a
  IN  IF trim(finalTranscript) # <<>> \/ trim(interimTranscript) # <<>>
        THEN startListeningTimeout(b)
        ELSE b

\* recognition.onresult, with the concatenated final and interim transcripts
onresult(s, finalTranscript, interimTranscript) ==
  LET a == IF trim(finalTranscript) # <<>>
             THEN emit(s, TranscriptEvent(trim(finalTranscript), TRUE)) ELSE s
      b == IF trim(interimTranscript) # <<>>
             THEN emit(a, TranscriptEvent(trim(interimTranscript), FALSE)) ELSE a
  IN  IF (trim(finalTranscript) # <<>> \/ trim(interimTranscript) # <<>>) /\ b.shouldBeListening
        THEN startListeningTimeout(b)
        ELSE b

\* (a changed onerror: no-speech is emitted like the other non-critical kinds)
onerrorEmitAll(s, error) ==
  LET a == [s EXCEPT !.lastNonCriticalError = error]
  IN  IF error \in CriticalErrors
        THEN stopListening(emit(a, ErrorEvent(error)))
        ELSE emit(a, ErrorEvent(error))

\* recognition.onerror
onerror(s, error) ==
  IF error = "no-speech" THEN [s EXCEPT !.lastNonCriticalError = "no-speech"]
  ELSE LET a == [s EXCEPT !.lastNonCriticalError = error]
       IN  IF error \in CriticalErrors
             THEN stopListening(emit(a, ErrorEvent(error)))
             ELSE emit(a, ErrorEvent(error))

\* recognition.onstart
onstart(s) ==
  emitListening([s EXCEPT !.isRecognizing = TRUE, !.restartAttempts = 0], TRUE)

\* (a changed onend: isListening false is emitted before a restart too)
onendEmitsAlways(s) ==
  LET a == emitListening([s EXCEPT !.isRecognizing = FALSE], FALSE)
  IN  IF a.isManuallyStopped \/ ~a.shouldBeListening
        THEN clearListeningTimeout(a)
        ELSE scheduleRestart(a)

\* recognition.onend
onend(s) ==
  LET a == [s EXCEPT !.isRecognizing = FALSE]
  IN  IF a.isManuallyStopped \/ ~a.shouldBeListening
        THEN clearListeningTimeout(emitListening(a, FALSE))
        ELSE scheduleRestart(a)

\* startListening up to the await of requestMicrophonePermission()
startListeningCall(s) ==
  IF ~s.recognition THEN emit(s, ErrorEvent("Speech recognition not available"))
  ELSE [s EXCEPT !.shouldBeListening = TRUE, !.permissionPending = @ + 1]

\* startListening from the permission result on
startListeningResume(s, hasPermission) ==
  LET a == [s EXCEPT !.permissionPending = @ - 1]
  IN  IF ~hasPermission THEN emit(a, ErrorEvent("not-allowed"))
      ELSE startListeningTimeout(startRecognitionSafely([a EXCEPT !.isManuallyStopped = FALSE]))

\* the callback startListeningTimeout arms
listeningTimeoutFired(s) ==
  LET a == [s EXCEPT !.isManuallyStopped = TRUE]
  IN  IF a.recognition THEN emit(engineStop(a), ErrorEvent("timeout")) ELSE a

\* (a changed restart callback: the engine is started whatever the flags say)
restartTimeoutFiredAlways(s) ==
  startRecognitionSafely([s EXCEPT !.lastNonCriticalError = Null])

\* the callback scheduleRestart arms
restartTimeoutFired(s) ==
  IF ~s.shouldBeListening \/ s.isManuallyStopped \/ ~s.recognition THEN s
  ELSE startRecognitionSafely([s EXCEPT !.lastNonCriticalError = Null])

\* ------------------------------------------------- TranslatorComponent

SpeechPauseMs == 1300

NewLine == "\n"

\* the text rebuildDisplayStrings shows for a segment still being translated
Placeholder == <<"[Translating]">>

\* what the translation backend answers for a text (an external capability)
Translated(text) == <<"E", "N", ":">> \o text

\* the state after ngOnInit, with or without a saved language
ComponentInit(savedLanguage) ==
  [ originalText        |-> <<>>,
    translatedText      |-> <<>>,
    isListening         |-> FALSE,
    isTranslating       |-> FALSE,
    selectedLanguage    |-> savedLanguage,
    errorMessage        |-> "",
    countdownInterval   |-> FALSE,
    scrollScheduleTimer |-> 0,
    scrollOut           |-> {},
    pendingTranslations |-> 0,
    nextSegmentId       |-> 1,
    segments            |-> <<>>,
    interimOriginal     |-> <<>>,
    interimTranslated   |-> <<>>,
    manualMode          |-> FALSE,
    speechBuffer        |-> <<>>,
    speechPauseTimer    |-> 0,
    pauseOut            |-> {},
    autoStartOut        |-> IF savedLanguage # "" THEN 1 ELSE 0,
    requests            |-> {},
    debounce            |-> [pending |-> FALSE, text |-> <<>>],
    lastDebounced       |-> [has |-> FALSE, text |-> <<>>],
    manualRequests      |-> {},
    nextManualId        |-> 1,
    destroyed           |-> FALSE,
    preference          |-> savedLanguage,
    enableTextToSpeech  |-> FALSE,
    isSpeaking          |-> FALSE,
    lastTranslatedText  |-> <<>>,
    spoken              |-> {},
    speakingOut         |-> 0,
    dispatched          |-> <<>>,
    armedPause          |-> FALSE ]

\* a handler starts with nothing passed to appendSegment
FreshC(c) == [c EXCEPT !.dispatched = <<>>, !.armedPause = FALSE]

clearSpeechPauseTimer(c) ==
  IF c.speechPauseTimer # 0
    THEN [c EXCEPT !.pauseOut = @ \ {c.speechPauseTimer}, !.speechPauseTimer = 0]
    ELSE c

resetSpeechPauseTimer(c) ==
  LET a  == clearSpeechPauseTimer(c)
      id == NewTimerId(a.pauseOut)
  IN  [a EXCEPT !.pauseOut = @ \cup {id}, !.speechPauseTimer = id, !.armedPause = TRUE]

\* (a changed clearScrollScheduleTimer: the armed timeout is not cancelled)
clearScrollScheduleTimerKeep(c) == c

clearScrollScheduleTimer(c) ==
  IF c.scrollScheduleTimer # 0
    THEN [c EXCEPT !.scrollOut = @ \ {c.scrollScheduleTimer}, !.scrollScheduleTimer = 0]
    ELSE c

scheduleAutoScrollToLatest(c) ==
  LET a  == clearScrollScheduleTimer(c)
      id == NewTimerId(a.scrollOut)
  IN  [a EXCEPT !.scrollOut = @ \cup {id}, !.scrollScheduleTimer = id]

\* the countdown interval is modelled as running or not; the seconds it shows are not
startCountdownTimer(c) == [c EXCEPT !.countdownInterval = TRUE]

stopCountdownTimer(c) == [c EXCEPT !.countdownInterval = FALSE]

\* only timeRemaining changes, which the model does not hold
resetCountdownToFull(c) == c

renderTranslated(seg) ==
  IF seg.translating /\ trim(seg.translated) = <<>> THEN Placeholder ELSE seg.translated

\* (a changed rebuildDisplayStrings: the interim text is left out of what is shown)
rebuildDisplayStringsNoInterim(c) ==
  IF c.manualMode THEN c
  ELSE LET originals    == [i \in 1..Len(c.segments) |-> c.segments[i].original]
           translations == [i \in 1..Len(c.segments) |-> renderTranslated(c.segments[i])]
       IN  [c EXCEPT !.originalText   = joinWith(originals, <<NewLine>>),
                     !.translatedText = joinWith(translations, <<NewLine>>)]

rebuildDisplayStrings(c) ==
  IF c.manualMode THEN c
  ELSE LET originals    == [i \in 1..Len(c.segments) |-> c.segments[i].original]
                             \o (IF c.interimOriginal # <<>> THEN <<c.interimOriginal>> ELSE <<>>)
           translations == [i \in 1..Len(c.segments) |-> renderTranslated(c.segments[i])]
                             \o (IF c.interimTranslated # <<>> THEN <<c.interimTranslated>> ELSE <<>>)
       IN  [c EXCEPT !.originalText   = joinWith(originals, <<NewLine>>),
                     !.translatedText = joinWith(translations, <<NewLine>>)]

\* (a changed findIndex: a segment that is not found is taken to be the last one)
segmentIndexOrLast(segments, id) ==
  LET at == {i \in 1..Len(segments) : segments[i].id = id}
  IN  IF at = {} THEN Len(segments) ELSE Min(at)

\* findIndex(s => s.id === id): 0 when absent
segmentIndex(segments, id) ==
  LET at == {i \in 1..Len(segments) : segments[i].id = id}
  IN  IF at = {} THEN 0 ELSE Min(at)

\* (a changed updateSegment: the patched segment is moved to the end of the list)
updateSegmentAtEnd(c, id, translated, translating) ==
  LET idx == segmentIndex(c.segments, id)
  IN  IF idx = 0 THEN c
      ELSE [c EXCEPT !.segments =
              SubSeq(@, 1, idx - 1) \o SubSeq(@, idx + 1, Len(@))
                \o <<[@[idx] EXCEPT !.translated = translated, !.translating = translating]>>]

updateSegment(c, id, translated, translating) ==
  LET idx == segmentIndex(c.segments, id)
  IN  IF idx = 0 THEN c
      ELSE [c EXCEPT !.segments[idx].translated = translated,
                     !.segments[idx].translating = translating]

\* (a changed appendSegment: a request is dispatched with or without a language)
appendSegmentAlwaysRequests(c, original) ==
  LET sourceLang   == c.selectedLanguage
      safeOriginal == truncateForQuery(original, QueryMaxChars)
      id           == c.nextSegmentId
      a == [c EXCEPT !.nextSegmentId = @ + 1,
                     !.segments = Append(@, [id |-> id, original |-> safeOriginal,
                                             translated |-> <<>>, translating |-> TRUE]),
                     !.dispatched = Append(@, original)]
  IN  [a EXCEPT !.pendingTranslations = @ + 1,
                !.isTranslating = TRUE,
                !.requests = @ \cup {[id |-> id, text |-> safeOriginal, lang |-> sourceLang]}]

appendSegment(c, original) ==
  LET sourceLang   == c.selectedLanguage
      safeOriginal == truncateForQuery(original, QueryMaxChars)
      id           == c.nextSegmentId
      a == [c EXCEPT !.nextSegmentId = @ + 1,
                     !.segments = Append(@, [id |-> id, original |-> safeOriginal,
                                             translated |-> <<>>, translating |-> TRUE]),
                     !.dispatched = Append(@, original)]
  IN  IF sourceLang = "" THEN rebuildDisplayStrings(updateSegment(a, id, <<>>, FALSE))
      ELSE [a EXCEPT !.pendingTranslations = @ + 1,
                     !.isTranslating = TRUE,
                     !.requests = @ \cup {[id |-> id, text |-> safeOriginal, lang |-> sourceLang]}]

\* for (const piece of pieces) this.appendSegment(piece)
RECURSIVE appendPieces(_, _)
appendPieces(c, pieces) ==
  IF pieces = <<>> THEN c ELSE appendPieces(appendSegment(c, Head(pieces)), Tail(pieces))

flushSpeechBuffer(c, force) ==
  IF trim(c.speechBuffer) = <<>>
    THEN rebuildDisplayStrings([c EXCEPT !.interimOriginal = <<>>, !.interimTranslated = <<>>])
    ELSE LET a == appendPieces(c, flushPieces(c.speechBuffer, force))
             b == [a EXCEPT !.speechBuffer = flushRemainder(c.speechBuffer, force)]
         IN  rebuildDisplayStrings([b EXCEPT !.interimOriginal = b.speechBuffer,
                                             !.interimTranslated = <<>>])

\* (a changed transcript$ subscription: the switch out of manual typing keeps the
\* speech buffer)
onTranscriptKeepBuffer(c, text, isFinal) ==
  LET a == IF c.manualMode
             THEN clearSpeechPauseTimer([c EXCEPT !.manualMode = FALSE, !.segments = <<>>,
                                                  !.interimOriginal = <<>>,
                                                  !.interimTranslated = <<>>])
             ELSE c
      b == resetSpeechPauseTimer(resetCountdownToFull(a))
  IN  IF isFinal
        THEN LET finalText == trim(text)
             IN  IF finalText = <<>> THEN b
                 ELSE flushSpeechBuffer(
                        [b EXCEPT !.speechBuffer = joinWithSpace(b.speechBuffer, finalText)],
                        FALSE)
        ELSE rebuildDisplayStrings(
               [b EXCEPT !.interimOriginal = joinWithSpace(b.speechBuffer, trim(text)),
                         !.interimTranslated = <<>>])

\* the transcript$ subscription
onTranscript(c, text, isFinal) ==
  LET a == IF c.manualMode
             THEN clearSpeechPauseTimer([c EXCEPT !.manualMode = FALSE, !.segments = <<>>,
                                                  !.interimOriginal = <<>>,
                                                  !.interimTranslated = <<>>,
                                                  !.speechBuffer = <<>>])
             ELSE c
      b == resetSpeechPauseTimer(resetCountdownToFull(a))
  IN  IF isFinal
        THEN LET finalText == trim(text)
             IN  IF finalText = <<>> THEN b
                 ELSE flushSpeechBuffer(
                        [b EXCEPT !.speechBuffer = joinWithSpace(b.speechBuffer, finalText)],
                        FALSE)
        ELSE rebuildDisplayStrings(
               [b EXCEPT !.interimOriginal = joinWithSpace(b.speechBuffer, trim(text)),
                         !.interimTranslated = <<>>])

\* (a changed isListening$ subscription: the stop drops the requests in flight)
onListeningCancelsRequests(c, listening) ==
  LET wasListening == c.isListening
      a == [c EXCEPT !.isListening = listening]
  IN  IF listening /\ ~wasListening THEN startCountdownTimer(a)
      ELSE IF ~listening /\ wasListening
        THEN [stopCountdownTimer(flushSpeechBuffer(clearSpeechPauseTimer(a), TRUE))
                EXCEPT !.requests = {}]
      ELSE a

\* (a changed isListening$ subscription: the stop cancels the pause timeout and
\* flushes nothing)
onListeningNoFlush(c, listening) ==
  LET wasListening == c.isListening
      a == [c EXCEPT !.isListening = listening]
  IN  IF listening /\ ~wasListening THEN startCountdownTimer(a)
      ELSE IF ~listening /\ wasListening
        THEN stopCountdownTimer(clearSpeechPauseTimer(a))
      ELSE a

\* the isListening$ subscription
onListening(c, listening) ==
  LET wasListening == c.isListening
      a == [c EXCEPT !.isListening = listening]
  IN  IF listening /\ ~wasListening THEN startCountdownTimer(a)
      ELSE IF ~listening /\ wasListening
        THEN stopCountdownTimer(flushSpeechBuffer(clearSpeechPauseTimer(a), TRUE))
      ELSE a

\* the kinds handleError shows a message for
ShownErrors == {"audio-capture", "not-allowed", "network", "timeout"}

handleError(c, error) ==
  IF error \in ShownErrors
    THEN [c EXCEPT !.errorMessage = error, !.isListening = FALSE]
    ELSE c

\* one emission of the service reaching its subscriber
deliverOne(c, event) ==
  IF event.stream = "transcript" THEN onTranscript(c, event.text, event.flag)
  ELSE IF event.stream = "isListening" THEN onListening(c, event.flag)
  ELSE handleError(c, event.kind)

\* the emissions of a handler, each handled before the next is made
RECURSIVE Deliver(_, _)
Deliver(c, events) ==
  IF c.destroyed \/ events = <<>> THEN c
  ELSE Deliver(deliverOne(c, Head(events)), Tail(events))

\* (a changed next callback: a result with the error marker is stored like any other)
segmentNextEcho(c, id, result) ==
  LET a == updateSegment(c, id, result.translatedText, FALSE)
      n == Max({0, a.pendingTranslations - 1})
  IN  rebuildDisplayStrings([a EXCEPT !.pendingTranslations = n, !.isTranslating = n > 0])

\* the next callback of a segment's translate request
segmentNext(c, id, result) ==
  LET a == IF result.error
             THEN [updateSegment(c, id, <<>>, FALSE) EXCEPT !.errorMessage = "translation-unavailable"]
             ELSE updateSegment(c, id, result.translatedText, FALSE)
      n == Max({0, a.pendingTranslations - 1})
  IN  rebuildDisplayStrings([a EXCEPT !.pendingTranslations = n, !.isTranslating = n > 0])

\* (a changed error callback: the segment of a failed request stays translating)
segmentErrorStaysPending(c, id) ==
  LET a == updateSegment(c, id, <<>>, TRUE)
      n == Max({0, a.pendingTranslations - 1})
  IN  rebuildDisplayStrings([a EXCEPT !.pendingTranslations = n, !.isTranslating = n > 0])

\* the error callback of a segment's translate request
segmentError(c, id) ==
  LET a == updateSegment(c, id, <<>>, FALSE)
      n == Max({0, a.pendingTranslations - 1})
  IN  rebuildDisplayStrings([a EXCEPT !.pendingTranslations = n, !.isTranslating = n > 0])

clearText(c) ==
  clearSpeechPauseTimer(
    [c EXCEPT !.originalText = <<>>, !.translatedText = <<>>, !.errorMessage = "",
              !.segments = <<>>, !.interimOriginal = <<>>, !.interimTranslated = <<>>,
              !.manualMode = FALSE, !.speechBuffer = <<>>, !.lastTranslatedText = <<>>])

\* textChangeSubject.next(text) under debounceTime(900): the pending value is
\* replaced and its 900 ms start again
textChangeNext(c, text) == [c EXCEPT !.debounce = [pending |-> TRUE, text |-> text]]

\* onTextChange: the user types in the textarea
onTextChange(c, text) ==
  LET a == [c EXCEPT !.manualMode = TRUE, !.segments = <<>>, !.interimOriginal = <<>>,
                     !.interimTranslated = <<>>, !.originalText = text]
  IN  IF trim(text) = <<>> THEN [a EXCEPT !.translatedText = <<>>]
      ELSE textChangeNext(a, truncateForQuery(text, QueryMaxChars))

\* onLanguageChange: the language is selected and saved; listening is started by
\* itself, and in manual mode the typed text is queued again
onLanguageChange(c, languageCode) ==
  LET a == [c EXCEPT !.selectedLanguage = languageCode, !.preference = languageCode]
      b == IF languageCode # "" /\ ~a.isListening THEN [a EXCEPT !.autoStartOut = @ + 1] ELSE a
  IN  IF b.manualMode /\ trim(b.originalText) # <<>>
        THEN textChangeNext(b, truncateForQuery(b.originalText, QueryMaxChars))
        ELSE b

\* translateTextOnce: a translate request of the typed text, its callbacks below
translateTextOnce(c, text) ==
  [c EXCEPT !.pendingTranslations = @ + 1,
            !.isTranslating = TRUE,
            !.manualRequests = @ \cup {[id |-> c.nextManualId, text |-> text]},
            !.nextManualId = @ + 1]

translateInterim(c, text) ==
  LET trimmed == trim(text)
  IN  IF trimmed = <<>> THEN rebuildDisplayStrings([c EXCEPT !.interimTranslated = <<>>])
      ELSE IF ~c.manualMode THEN c
      ELSE IF c.selectedLanguage = "" THEN [c EXCEPT !.errorMessage = "select-source-language"]
      ELSE translateTextOnce([c EXCEPT !.errorMessage = ""],
                             truncateForQuery(trimmed, QueryMaxChars))

\* the subscription of textChangeSubject: distinctUntilChanged, then translateInterim
textChangeDebounced(c) ==
  LET text == c.debounce.text
      a    == [c EXCEPT !.debounce = [pending |-> FALSE, text |-> <<>>]]
  IN  IF a.lastDebounced.has /\ a.lastDebounced.text = text THEN a
      ELSE translateInterim([a EXCEPT !.lastDebounced = [has |-> TRUE, text |-> text]], text)

\* speakTranslation: textToSpeech.speak(text, 'en-US') is called (spoken holds the
\* texts it was called with) and a timeout of the estimated duration is started,
\* unless the text is blank or the same text is being spoken
speakTranslation(c, text) ==
  IF trim(text) = <<>> THEN c
  ELSE IF c.isSpeaking /\ c.lastTranslatedText = text THEN c
  ELSE [c EXCEPT !.isSpeaking = TRUE, !.spoken = @ \cup {text}, !.speakingOut = @ + 1]

\* the next callback of translateTextOnce (the history of translations is not held)
manualNext(c, result) ==
  LET n == Max({0, c.pendingTranslations - 1})
  IN  IF result.error
        THEN [c EXCEPT !.pendingTranslations = n, !.isTranslating = n > 0,
                       !.errorMessage = "translation-unavailable", !.translatedText = <<>>]
        ELSE LET a == [c EXCEPT !.translatedText = result.translatedText,
                                !.pendingTranslations = n, !.isTranslating = n > 0]
             IN  IF /\ a.enableTextToSpeech
                    /\ result.translatedText # <<>>
                    /\ result.translatedText # a.lastTranslatedText
                    /\ ~a.isSpeaking
                   THEN speakTranslation(
                          [a EXCEPT !.lastTranslatedText = result.translatedText],
                          result.translatedText)
                   ELSE a

\* (a changed error callback: a failed request is not counted as resolved)
manualErrorKeepsCount(c) == [c EXCEPT !.errorMessage = "translation-failed"]

\* the error callback of translateTextOnce
manualError(c) ==
  LET n == Max({0, c.pendingTranslations - 1})
  IN  [c EXCEPT !.pendingTranslations = n, !.isTranslating = n > 0,
                !.errorMessage = "translation-failed"]

\* ngOnDestroy, the component's part: the subscriptions end (the pending debounce
\* with them), the countdown, the pause timer and the scroll timer are cancelled
ngOnDestroy(c) ==
  clearScrollScheduleTimer(clearSpeechPauseTimer(stopCountdownTimer(
    [c EXCEPT !.destroyed = TRUE, !.debounce = [pending |-> FALSE, text |-> <<>>]])))

\* ------------------------------------------------ the text functions alone

\* bounds of the drawn inputs
MaxTextLen == 4

MaxParts == 3

MaxLimit == 5

TextAlphabet == {"a", "b", " ", "."}

RECURSIVE TextsUpTo(_)
TextsUpTo(n) ==
  IF n = 0 THEN {<<>>}
  ELSE LET shorter == TextsUpTo(n - 1)
       IN  shorter \cup {Append(t, c) : t \in {u \in shorter : Len(u) = n - 1}, c \in TextAlphabet}

ExampleBuffer ==
  <<"H","e","l","l","o"," ","t","h","e","r","e","."," ","H","o","w"," ","a","r","e">>

ExampleSentence == <<"H","e","l","l","o"," ","t","h","e","r","e",".">>

ExampleRemainder == <<"H","o","w"," ","a","r","e">>

\* n times the character ch
Repeat(ch, n) == [i \in 1..n |-> ch]

\* two sentences that do not fit one query together, and a remainder
LongSentence == Repeat("a", 299) \o <<".">>

LongBuffer == LongSentence \o <<" ">> \o LongSentence \o <<" ", "b">>

\* texts with each of the six terminators, at the start, inside and at the end
TerminatorTexts ==
  { <<"a", "!", " ", "b", "u3002", "c">>,
    <<"?", " ", " ", "a", "uFF01", "uFF1F", " ", "b", " ", ".">>,
    <<" ", "a", " ", "b", "uFF1F", "c", " ", "!", " ">> }

\* a sentence without a space that does not fit one query
UnbrokenSentence == Repeat("a", 460) \o <<".">>

\* sixty words and an unfinished one: more than one query, no sentence end
WordyText == Flatten([i \in 1..60 |-> <<"a", "b", "c", "d", "e", "f", "g", " ">>]) \o <<"h", "i">>

DrawnTexts ==
  TextsUpTo(MaxTextLen) \cup {ExampleBuffer, LongBuffer, UnbrokenSentence, WordyText}
    \cup TerminatorTexts

\* the parts packIntoChunks is drawn: sentences, words, padded and blank parts
PartPool ==
  { <<"a", ".">>, <<"b", "b", "!">>, <<"c", " ", "d", "d", "d", "d", "d", "d">>,
    <<"e">>, <<" ", "f", " ">>, <<" ">> }

RECURSIVE PartListsUpTo(_)
PartListsUpTo(n) ==
  IF n = 0 THEN {<<>>}
  ELSE LET shorter == PartListsUpTo(n - 1)
       IN  shorter \cup {Append(l, p) : l \in {u \in shorter : Len(u) = n - 1}, p \in PartPool}

\* a limit at which the last 40% of the budget is several characters wide
ChunkLimit == 10

\* texts longer than ChunkLimit: a space in the last 40% and one right after the
\* limit, a space only in the first 60%, a space at exactly six tenths, a space
\* as the last character within the limit, and no space at all
ChunkExamples ==
  { <<"a", "b", "c", "d", "e", "f", "g", " ", "h", "i", " ", "j", "k", "l">>,
    <<"a", "b", " ", "c", "d", "e", "f", "g", "h", "i", "j", "k", " ", "l", "m">>,
    <<"a", "b", "c", "d", "e", "f", " ", "g", "h", "i", "j", "k", "l", "m">>,
    <<"a", "b", "c", "d", "e", "f", "g", "h", "i", " ", "j", "k">>,
    <<"a", "b", "c", "d", "e", "f", "g", "h", "i", "j", "k", "l", "m", "n", "o", "p", "q", "r", "s", "t", "u", "v", "w">> }

NoOutput == [op |-> "none", chunks |-> <<>>, rest |-> <<>>]

TextInit ==
  /\ tIn \in [text : DrawnTexts, parts : {<<>>}, max : {QueryMaxChars}, force : BOOLEAN]
        \cup [text : {<<>>}, parts : PartListsUpTo(MaxParts), max : 1..MaxLimit, force : {FALSE}]
        \cup [text : {<<>>}, parts : {<<t>> : t \in ChunkExamples}, max : {ChunkLimit},
              force : {FALSE}]
  /\ tOut = NoOutput

\* flushSpeechBuffer({force}) applied to the drawn buffer
TextFlush ==
  /\ tOut.op = "none"
  /\ tIn.parts = <<>>
  /\ tOut' = [op |-> "flush", chunks |-> flushPieces(tIn.text, tIn.force),
              rest |-> flushRemainder(tIn.text, tIn.force)]
  /\ UNCHANGED <<tIn, svc, cmp, hist, env>>

\* extractCompletedSentences applied to the drawn text
TextExtract ==
  /\ tOut.op = "none"
  /\ tIn.parts = <<>>
  /\ LET e == extractCompletedSentences(tIn.text)
     IN  tOut' = [op |-> "extract", chunks |-> e.completed, rest |-> e.remainder]
  /\ UNCHANGED <<tIn, svc, cmp, hist, env>>

\* packIntoChunks applied to the drawn parts and limit
TextPack ==
  /\ tOut.op = "none"
  /\ tIn.text = <<>>
  /\ tOut' = [op |-> "pack", chunks |-> packIntoChunks(tIn.parts, tIn.max), rest |-> <<>>]
  /\ UNCHANGED <<tIn, svc, cmp, hist, env>>

\* chunkText applied to the drawn parts joined, and the drawn limit
TextChunk ==
  /\ tOut.op = "none"
  /\ tIn.text = <<>>
  /\ tOut' = [op |-> "chunk", chunks |-> chunkText(joinWith(tIn.parts, <<" ">>), tIn.max),
              rest |-> <<>>]
  /\ UNCHANGED <<tIn, svc, cmp, hist, env>>

\* truncateForQuery applied to the drawn parts joined, and the drawn limit
TextTruncate ==
  /\ tOut.op = "none"
  /\ tIn.text = <<>>
  /\ tOut' = [op |-> "truncate", chunks |-> <<>>,
              rest |-> truncateForQuery(joinWith(tIn.parts, <<" ">>), tIn.max)]
  /\ UNCHANGED <<tIn, svc, cmp, hist, env>>

TextNext ==
  \/ TextFlush
  \/ TextExtract
  \/ TextPack
  \/ TextChunk
  \/ TextTruncate

\* ------------------------------------------------------------ the pipeline

\* bounds of a run: the restart ladder, the startListening calls awaiting the
\* permission, the finalized transcripts, the segments, the clearText calls
MaxRestartAttempts == 8

MaxPermissionPending == 1

MaxFinals == 3

MaxSegments == 3

MaxClears == 1

\* the same for the whole pipeline, and the rungs the supervisor climbs
PipelineFinals == 1

PipelineSegments == 1

PipelineAttempts == 1

SupervisorAttempts == 2

\* the finalized transcripts and the segments while the timers are watched
TimersFinals == 2

TimersSegments == 2

\* the typings, the finalized transcripts and the segments around manual typing
ManualTyped == 1

ManualFinals == 2

ManualSegments == 1

\* the rungs climbed while the guarded start is watched
StartAttempts == 3

\* the finalized transcripts and the segments while the pause timer is watched
PauseFinals == 2

PauseSegments == 2

\* the auto-start timeouts outstanding at once, and the finalized transcripts and
\* segments while the language is changed
MaxAutoStarts == 2

LanguageFinals == 2

LanguageSegments == 2

\* the finalized transcripts, segments and edits of the textarea while the user
\* goes between typing and speaking
ModesFinals == 1

ModesSegments == 2

ModesTyped == 1

\* the finalized transcripts, segments, edits of the textarea and clears while
\* translations are in flight
ClearFinals == 2

ClearSegments == 2

ClearTyped == 1

ClearClears == 1

\* the finalized transcripts, segments and clears while every request is answered
ResolveFinals == 2

ResolveSegments == 2

ResolveClears == 1

\* the finalized transcripts, segments and edits of the textarea while
\* translations are read aloud, and the speaking timeouts outstanding at once
AloudFinals == 1

AloudSegments == 1

AloudTyped == 1

MaxSpeaking == 2

\* the error kinds the engine is drawn to report
EngineErrorKinds ==
  {"no-speech", "not-allowed", "audio-capture", "service-not-allowed", "network", "aborted"}

\* the whole pipeline: a short utterance, one silent and one critical error kind,
\* the first rung of the restart ladder, the microphone permission granted
PipelineEnv ==
  [ finalTexts   |-> { <<"b">> },
    interimTexts |-> {},
    kinds        |-> {"not-allowed"},
    mobile       |-> {FALSE},
    available    |-> {TRUE},
    permissions  |-> {TRUE},
    languages    |-> {},
    readAloud    |-> {FALSE},
    saved        |-> {"es"},
    maxFinals    |-> PipelineFinals,
    maxSegments  |-> PipelineSegments,
    maxAttempts  |-> PipelineAttempts,
    maxPending   |-> MaxPermissionPending,
    typedTexts   |-> {},
    maxTyped     |-> 0,
    maxClears    |-> MaxClears ]

\* the listening supervisor: every error kind, with and without an engine, the
\* first rungs of the restart ladder, a silent room
SupervisorEnv ==
  [ finalTexts   |-> {},
    interimTexts |-> {},
    kinds        |-> EngineErrorKinds,
    mobile       |-> {FALSE},
    available    |-> BOOLEAN,
    permissions  |-> BOOLEAN,
    languages    |-> {},
    readAloud    |-> {FALSE},
    saved        |-> {"es"},
    maxFinals    |-> 0,
    maxSegments  |-> 0,
    maxAttempts  |-> SupervisorAttempts,
    maxPending   |-> MaxPermissionPending,
    typedTexts   |-> {},
    maxTyped     |-> 0,
    maxClears    |-> 0 ]

\* the restart ladder: both device classes, every rung up to the caps, errors
\* with and without the no-speech penalty
BackoffEnv ==
  [ finalTexts   |-> {},
    interimTexts |-> {},
    kinds        |-> {"no-speech", "aborted"},
    mobile       |-> BOOLEAN,
    available    |-> {TRUE},
    permissions  |-> BOOLEAN,
    languages    |-> {},
    readAloud    |-> {FALSE},
    saved        |-> {"es"},
    maxFinals    |-> 0,
    maxSegments  |-> 0,
    maxAttempts  |-> MaxRestartAttempts,
    maxPending   |-> MaxPermissionPending,
    typedTexts   |-> {},
    maxTyped     |-> 0,
    maxClears    |-> 0 ]

\* the timers: an utterance, sessions that end and restart, a user who stops and
\* starts, translations that stay in flight
TimersEnv ==
  [ finalTexts   |-> { <<"b">> },
    interimTexts |-> {},
    kinds        |-> {},
    mobile       |-> {FALSE},
    available    |-> {TRUE},
    permissions  |-> BOOLEAN,
    languages    |-> {},
    readAloud    |-> {FALSE},
    saved        |-> {"es"},
    maxFinals    |-> TimersFinals,
    maxSegments  |-> TimersSegments,
    maxAttempts  |-> SupervisorAttempts,
    maxPending   |-> MaxPermissionPending,
    typedTexts   |-> {},
    maxTyped     |-> 0,
    maxClears    |-> 0 ]

\* the segments: several utterances with and without a sentence end, with and
\* without a selected language, an engine that keeps running
SegmentsEnv ==
  [ finalTexts   |-> { <<"a", ".">>, <<"b">> },
    interimTexts |-> {},
    kinds        |-> {},
    mobile       |-> {FALSE},
    available    |-> {TRUE},
    permissions  |-> BOOLEAN,
    languages    |-> {},
    readAloud    |-> {FALSE},
    saved        |-> {"es"},
    maxFinals    |-> MaxFinals,
    maxSegments  |-> MaxSegments,
    maxAttempts  |-> 0,
    maxPending   |-> MaxPermissionPending,
    typedTexts   |-> {},
    maxTyped     |-> 0,
    maxClears    |-> MaxClears ]

\* manual typing and speech: the user types (blank or not) while and after speech
\* is heard, a transcript ends the typing
ManualEnv ==
  [ finalTexts   |-> { <<"a", ".">>, <<"b">> },
    interimTexts |-> {},
    kinds        |-> {},
    mobile       |-> {FALSE},
    available    |-> {TRUE},
    permissions  |-> BOOLEAN,
    languages    |-> {},
    readAloud    |-> {FALSE},
    saved        |-> {"es"},
    maxFinals    |-> ManualFinals,
    maxSegments  |-> ManualSegments,
    maxAttempts  |-> 0,
    maxPending   |-> MaxPermissionPending,
    typedTexts   |-> { <<>>, <<"x">> },
    maxTyped     |-> ManualTyped,
    maxClears    |-> 0 ]

\* leaving the page: an utterance, a user who stops and starts, translations in
\* flight, and the page left at any moment
TeardownEnv ==
  [ finalTexts   |-> { <<"b">> },
    interimTexts |-> {},
    kinds        |-> {},
    mobile       |-> {FALSE},
    available    |-> {TRUE},
    permissions  |-> BOOLEAN,
    languages    |-> {},
    readAloud    |-> {FALSE},
    saved        |-> {"es"},
    maxFinals    |-> PipelineFinals,
    maxSegments  |-> PipelineSegments,
    maxAttempts  |-> 0,
    maxPending   |-> MaxPermissionPending,
    typedTexts   |-> {},
    maxTyped     |-> 0,
    maxClears    |-> 0 ]

\* the guarded start: a user who is always granted the microphone, sessions that
\* end and errors the supervisor restarts after
StartEnv ==
  [ finalTexts   |-> {},
    interimTexts |-> {},
    kinds        |-> {"no-speech", "aborted"},
    mobile       |-> {FALSE},
    available    |-> {TRUE},
    permissions  |-> {TRUE},
    languages    |-> {},
    readAloud    |-> {FALSE},
    saved        |-> {"es"},
    maxFinals    |-> 0,
    maxSegments  |-> 0,
    maxAttempts  |-> StartAttempts,
    maxPending   |-> MaxPermissionPending,
    typedTexts   |-> {},
    maxTyped     |-> 0,
    maxClears    |-> 0 ]

\* the pause in speech: interim and finalized transcripts without a sentence end
\* and with one, an engine that keeps running
PauseEnv ==
  [ finalTexts   |-> { <<"b">>, <<"a", ".">> },
    interimTexts |-> { <<"c">> },
    kinds        |-> {},
    mobile       |-> {FALSE},
    available    |-> {TRUE},
    permissions  |-> {TRUE},
    languages    |-> {},
    readAloud    |-> {FALSE},
    saved        |-> {"es"},
    maxFinals    |-> PauseFinals,
    maxSegments  |-> PauseSegments,
    maxAttempts  |-> 0,
    maxPending   |-> MaxPermissionPending,
    typedTexts   |-> {},
    maxTyped     |-> 0,
    maxClears    |-> 0 ]

\* typing and speaking by turns: a sentence and words after it are heard, then
\* unfinished words, the user types, translations of both kinds are in flight
ModesEnv ==
  [ finalTexts   |-> { <<"a", ".", " ", "b">> },
    interimTexts |-> { <<"c">> },
    kinds        |-> {},
    mobile       |-> {FALSE},
    available    |-> {TRUE},
    permissions  |-> {TRUE},
    languages    |-> {},
    readAloud    |-> {FALSE},
    saved        |-> {"es"},
    maxFinals    |-> ModesFinals,
    maxSegments  |-> ModesSegments,
    maxAttempts  |-> 0,
    maxPending   |-> MaxPermissionPending,
    typedTexts   |-> { <<"x">> },
    maxTyped     |-> ModesTyped,
    maxClears    |-> 0 ]

\* clearing and switching while translations are in flight: sentences are heard,
\* the user clears the page or types
ClearEnv ==
  [ finalTexts   |-> { <<"a", ".">> },
    interimTexts |-> {},
    kinds        |-> {},
    mobile       |-> {FALSE},
    available    |-> {TRUE},
    permissions  |-> {TRUE},
    languages    |-> {},
    readAloud    |-> {FALSE},
    saved        |-> {"es"},
    maxFinals    |-> ClearFinals,
    maxSegments  |-> ClearSegments,
    maxAttempts  |-> 0,
    maxPending   |-> MaxPermissionPending,
    typedTexts   |-> { <<"x">> },
    maxTyped     |-> ClearTyped,
    maxClears    |-> ClearClears ]

\* every request is answered: sentences are heard, the user clears the page
ResolveEnv ==
  [ finalTexts   |-> { <<"a", ".">> },
    interimTexts |-> {},
    kinds        |-> {},
    mobile       |-> {FALSE},
    available    |-> {TRUE},
    permissions  |-> {TRUE},
    languages    |-> {},
    readAloud    |-> {FALSE},
    saved        |-> {"es"},
    maxFinals    |-> ResolveFinals,
    maxSegments  |-> ResolveSegments,
    maxAttempts  |-> 0,
    maxPending   |-> MaxPermissionPending,
    typedTexts   |-> {},
    maxTyped     |-> 0,
    maxClears    |-> ResolveClears ]

\* reading aloud: the saved preference enables it, a sentence is heard and a text
\* is typed
AloudEnv ==
  [ finalTexts   |-> { <<"a", ".">> },
    interimTexts |-> {},
    kinds        |-> {},
    mobile       |-> {FALSE},
    available    |-> {TRUE},
    permissions  |-> {TRUE},
    languages    |-> {},
    readAloud    |-> {TRUE},
    saved        |-> {"es"},
    maxFinals    |-> AloudFinals,
    maxSegments  |-> AloudSegments,
    maxAttempts  |-> 0,
    maxPending   |-> MaxPermissionPending,
    typedTexts   |-> { <<"x">> },
    maxTyped     |-> AloudTyped,
    maxClears    |-> 0 ]

\* the language selection: a user who changes the language, also to none, while
\* sentences are heard and translated
LanguageEnv ==
  [ finalTexts   |-> { <<"a", ".">> },
    interimTexts |-> {},
    kinds        |-> {},
    mobile       |-> {FALSE},
    available    |-> {TRUE},
    permissions  |-> {TRUE},
    languages    |-> {"", "fr"},
    readAloud    |-> {FALSE},
    saved        |-> {"es"},
    maxFinals    |-> LanguageFinals,
    maxSegments  |-> LanguageSegments,
    maxAttempts  |-> 0,
    maxPending   |-> MaxPermissionPending,
    typedTexts   |-> {},
    maxTyped     |-> 0,
    maxClears    |-> 0 ]

\* stopping under fair scheduling: a critical and a recoverable error kind, the
\* first rung of the restart ladder
StopEnv ==
  [ finalTexts   |-> {},
    interimTexts |-> {},
    kinds        |-> {"not-allowed", "aborted"},
    mobile       |-> {FALSE},
    available    |-> {TRUE},
    permissions  |-> BOOLEAN,
    languages    |-> {},
    readAloud    |-> {FALSE},
    saved        |-> {"es"},
    maxFinals    |-> 0,
    maxSegments  |-> 0,
    maxAttempts  |-> PipelineAttempts,
    maxPending   |-> MaxPermissionPending,
    typedTexts   |-> {},
    maxTyped     |-> 0,
    maxClears    |-> 0 ]

\* heard: the non-whitespace characters of the finalized transcripts, in order;
\* sent: those of the chunks passed to appendSegment, in order; results: what the
\* translate requests delivered to the segments shown; timeouts: the 'timeout'
\* errors emitted since startListening was last called; cause: the last explicit
\* stop ("stop") or inactivity timeout ("timeout") since the supervisor last
\* meant to listen (shouldBeListening and not manually stopped), if any; late: a translate response reached its segment after
\* listening was stopped; switched: a transcript ended manual typing; typed: the
\* onTextChange calls
HistInit ==
  [heard |-> <<>>, sent |-> <<>>, results |-> {}, timeouts |-> 0, finals |-> 0, clears |-> 0,
   cause |-> "none", late |-> FALSE, switched |-> FALSE, typed |-> 0]

\* the state after the construction of the service and ngOnInit of the component
InitIn(e) ==
  /\ env = e
  /\ \E mobile \in e.mobile, available \in e.available : svc = ServiceInit(mobile, available)
  /\ \E saved \in e.saved :
     \E enableTTS \in e.readAloud :
       cmp = [ComponentInit(saved) EXCEPT
                !.errorMessage = IF svc.recognition THEN "" ELSE "unsupported",
                !.enableTextToSpeech = enableTTS]
  /\ hist = HistInit
  /\ tIn = [text |-> <<>>, parts |-> <<>>, max |-> QueryMaxChars, force |-> FALSE]
  /\ tOut = NoOutput

Init == InitIn(PipelineEnv)

\* the effect on originalText and translatedText: a change schedules a scroll
\* (the effect ends with the component)
afterRender(old, c) ==
  IF ~c.destroyed
       /\ (c.originalText # old.originalText \/ c.translatedText # old.translatedText)
    THEN scheduleAutoScrollToLatest(c)
    ELSE c

\* the service as a handler finds it: nothing emitted, nothing called yet
Begin == Fresh(svc)

\* the component as a handler finds it
BeginC == FreshC(cmp)

\* The end of a handler: s and c are the service and the component it leaves.
\* What the handler emitted, called and dispatched is not kept.
\* A 120 s timeout armed no earlier than a 1.3 s pause timeout expires after it.
Commit(s, c, h) ==
  /\ s.restartAttempts <= env.maxAttempts
  /\ s.permissionPending <= env.maxPending
  /\ c.nextSegmentId <= env.maxSegments + 1
  /\ h.finals <= env.maxFinals
  /\ h.clears <= env.maxClears
  /\ h.typed <= env.maxTyped
  /\ c.speakingOut <= MaxSpeaking
  /\ svc' = [Fresh(s) EXCEPT !.armedTimeout = FALSE,
                             !.timeoutAfterPause =
                               IF s.armedTimeout THEN TRUE
                               ELSE IF c.armedPause THEN FALSE
                               ELSE @]
  /\ cmp' = FreshC(afterRender(cmp, c))
  /\ hist' = [h EXCEPT !.sent = @ \o NonSpace(Flatten(c.dispatched)),
                        !.cause = IF s.shouldBeListening /\ ~s.isManuallyStopped
                                    THEN "none" ELSE @,
                        !.late = @ /\ ~(s.shouldBeListening /\ ~s.isManuallyStopped)]
  /\ UNCHANGED <<env, tIn, tOut>>

\* a handler of the service: its emissions reach the component's subscriptions
ServiceStep(s, h) == Commit(s, Deliver(BeginC, s.emits), h)

\* a handler of the component that calls the service (s) and leaves c
ComponentStep(s, c, h) == Commit(s, Deliver(c, s.emits), h)

\* ---- the user

\* toggleListening
toggleService(s, c) ==
  IF c.selectedLanguage = "" THEN s
  ELSE IF c.isListening THEN stopListening(s)
  ELSE startListeningCall(s)

toggleComponent(c) ==
  IF c.selectedLanguage = "" THEN [c EXCEPT !.errorMessage = "select-language"]
  ELSE IF c.isListening THEN c
  ELSE [c EXCEPT !.errorMessage = ""]

ToggleListening ==
  /\ ~cmp.destroyed
  /\ ComponentStep(toggleService(Begin, cmp), toggleComponent(BeginC),
                   IF cmp.selectedLanguage = "" THEN hist
                   ELSE IF cmp.isListening THEN [hist EXCEPT !.cause = "stop"]
                   ELSE [hist EXCEPT !.timeouts = 0])

\* the user types in the textarea
OnTextChange(text) ==
  /\ ~cmp.destroyed
  /\ ComponentStep(Begin, onTextChange(BeginC, text), [hist EXCEPT !.typed = @ + 1])

\* the 900 ms of debounceTime elapse
DebounceFires ==
  /\ cmp.debounce.pending
  /\ ComponentStep(Begin, textChangeDebounced(BeginC), hist)

\* the page is left: ngOnDestroy
NgOnDestroy ==
  /\ ~cmp.destroyed
  /\ ComponentStep(stopListening(Begin), ngOnDestroy(BeginC), [hist EXCEPT !.cause = "stop"])

\* the 500 ms timeout of autoStartListening
AutoStartFires ==
  /\ cmp.autoStartOut > 0
  /\ LET c == [BeginC EXCEPT !.autoStartOut = @ - 1]
     IN  IF c.selectedLanguage # "" /\ ~c.isListening
           THEN ComponentStep(startListeningCall(Begin), c, [hist EXCEPT !.timeouts = 0])
           ELSE ComponentStep(Begin, c, hist)

\* the user selects a language, or none
OnLanguageChange(languageCode) ==
  /\ ~cmp.destroyed
  /\ onLanguageChange(BeginC, languageCode).autoStartOut <= MaxAutoStarts
  /\ ComponentStep(Begin, onLanguageChange(BeginC, languageCode), hist)

ClearText ==
  /\ ~cmp.destroyed
  /\ ComponentStep(Begin, clearText(BeginC),
                   [hist EXCEPT !.heard = <<>>, !.sent = <<>>, !.results = {},
                                !.late = FALSE, !.clears = @ + 1])

\* ---- the microphone permission

PermissionResult(hasPermission) ==
  /\ svc.permissionPending > 0
  /\ ServiceStep(startListeningResume(Begin, hasPermission), [hist EXCEPT !.timeouts = 0])

\* ---- the recognition engine

\* the engine reports that it started
afterEngineStarted(s) == onstart([s EXCEPT !.engine = "active"])

EngineStarted ==
  /\ svc.engine = "starting"
  /\ ServiceStep(afterEngineStarted(Begin), hist)

\* the engine delivers results: onresult concatenates transcript + ' ' per final
afterEngineResult(s, final, interim) ==
  onresult(s, IF final = <<>> THEN <<>> ELSE final \o <<" ">>, interim)

EngineResult(final, interim) ==
  /\ svc.engine \in {"active", "stopping"}
  /\ final # <<>> \/ interim # <<>>
  /\ LET switched == cmp.manualMode /\ ~cmp.destroyed
         h0 == IF switched
                 THEN [hist EXCEPT !.heard = <<>>, !.sent = <<>>, !.results = {},
                                   !.switched = TRUE]
               ELSE hist
     IN  ServiceStep(afterEngineResult(Begin, final, interim),
           IF final = <<>> \/ cmp.destroyed THEN h0
           ELSE [h0 EXCEPT !.heard = @ \o NonSpace(final), !.finals = @ + 1])

\* the engine reports an error; it may end its session after it
afterEngineError(s, kind, ends) ==
  onerror([s EXCEPT !.engine = IF ends THEN engineEnding(@) ELSE @], kind)

EngineError(kind, ends) ==
  /\ svc.engine \in {"starting", "active", "stopping", "ending"}
  /\ ServiceStep(afterEngineError(Begin, kind, ends),
                 IF kind \in CriticalErrors THEN [hist EXCEPT !.cause = "stop"] ELSE hist)

\* the engine ends its session, asked to or not
afterEngineEnded(s) == onend([s EXCEPT !.engine = "inactive"])

EngineEnded ==
  /\ svc.engine \in {"starting", "active", "stopping", "ending"}
  /\ ServiceStep(afterEngineEnded(Begin), hist)

\* ---- the timeouts

afterListeningTimeout(s, id) == listeningTimeoutFired([s EXCEPT !.listeningOut = @ \ {id}])

\* a timeout of SpeechPauseMs armed no later than one of ListeningDuration expires
\* before it
PauseExpiresFirst == SpeechPauseMs < ListeningDuration

\* The inactivity timeout can expire. A session that is ending has ended, and a
\* pause timeout armed no later has expired, well within the 120 s.
ListeningTimeoutDue(id) ==
  /\ id \in svc.listeningOut
  /\ svc.engine \notin {"stopping", "ending"}
  /\ ~(PauseExpiresFirst /\ svc.timeoutAfterPause /\ cmp.pauseOut # {})

ListeningTimeoutFires(id) ==
  /\ ListeningTimeoutDue(id)
  /\ ServiceStep(afterListeningTimeout(Begin, id),
                 [hist EXCEPT !.timeouts = Min({@ + 1, 2}), !.cause = "timeout"])

afterRestartTimeout(s, id) == restartTimeoutFired([s EXCEPT !.restartOut = @ \ {id}])

RestartTimeoutFires(id) ==
  /\ id \in svc.restartOut
  /\ ServiceStep(afterRestartTimeout(Begin, id), hist)

\* (a changed pause callback: the flush is not forced)
afterPauseTimerUnforced(c, id) == flushSpeechBuffer([c EXCEPT !.pauseOut = @ \ {id}], FALSE)

afterPauseTimer(c, id) == flushSpeechBuffer([c EXCEPT !.pauseOut = @ \ {id}], TRUE)

PauseTimerFires(id) ==
  /\ id \in cmp.pauseOut
  /\ ComponentStep(Begin, afterPauseTimer(BeginC, id), hist)

\* the timeout of the estimated duration of a reading
afterSpeakingTimeout(c) == [c EXCEPT !.speakingOut = @ - 1, !.isSpeaking = FALSE]

SpeakingTimeoutFires ==
  /\ cmp.speakingOut > 0
  /\ ComponentStep(Begin, afterSpeakingTimeout(BeginC), hist)

afterScrollTimer(c, id) == [c EXCEPT !.scrollOut = @ \ {id}, !.scrollScheduleTimer = 0]

ScrollTimerFires(id) ==
  /\ id \in cmp.scrollOut
  /\ ComponentStep(Begin, afterScrollTimer(BeginC, id), hist)

\* ---- the translation backend

\* what a translate request may deliver to next(): a translation, an empty
\* translation, a result that carries the service's error marker
TranslateResults(text) ==
  { [error |-> FALSE, translatedText |-> Translated(text)],
    [error |-> FALSE, translatedText |-> <<>>],
    [error |-> TRUE,  translatedText |-> text] }

\* the history once a request of segment id delivered the text translated
delivered(h, id, translated) ==
  IF segmentIndex(cmp.segments, id) = 0 THEN h
  ELSE [h EXCEPT !.results = @ \cup {[id |-> id, translated |-> translated]},
                 !.late = @ \/ (h.cause = "stop" /\ ~svc.shouldBeListening)]

afterTranslateNext(c, req, result) ==
  segmentNext([c EXCEPT !.requests = @ \ {req}], req.id, result)

TranslateSucceeds(req, result) ==
  /\ req \in cmp.requests
  /\ result \in TranslateResults(req.text)
  /\ ComponentStep(Begin, afterTranslateNext(BeginC, req, result),
                   delivered(hist, req.id, IF result.error THEN <<>> ELSE result.translatedText))

afterTranslateError(c, req) == segmentError([c EXCEPT !.requests = @ \ {req}], req.id)

TranslateFails(req) ==
  /\ req \in cmp.requests
  /\ ComponentStep(Begin, afterTranslateError(BeginC, req), delivered(hist, req.id, <<>>))

afterManualNext(c, req, result) == manualNext([c EXCEPT !.manualRequests = @ \ {req}], result)

ManualSucceeds(req, result) ==
  /\ req \in cmp.manualRequests
  /\ result \in TranslateResults(req.text)
  /\ ComponentStep(Begin, afterManualNext(BeginC, req, result), hist)

afterManualError(c, req) == manualError([c EXCEPT !.manualRequests = @ \ {req}])

ManualFails(req) ==
  /\ req \in cmp.manualRequests
  /\ ComponentStep(Begin, afterManualError(BeginC, req), hist)

\* ---- the specifications

\* the page starts listening by itself
Startup ==
  \/ AutoStartFires
  \/ \E hasPermission \in env.permissions : PermissionResult(hasPermission)
  \/ EngineStarted

Faults ==
  \/ \E kind \in env.kinds, ends \in BOOLEAN : EngineError(kind, ends)
  \/ EngineEnded
  \/ \E id \in TimerIds : RestartTimeoutFires(id)

Results ==
  \E final \in env.finalTexts \cup {<<>>}, interim \in env.interimTexts \cup {<<>>} :
    EngineResult(final, interim)

Timers ==
  \/ \E id \in TimerIds : ListeningTimeoutFires(id)
  \/ \E id \in TimerIds : PauseTimerFires(id)
  \/ \E id \in TimerIds : ScrollTimerFires(id)

Translation ==
  \/ \E req \in cmp.requests : \E result \in TranslateResults(req.text) :
       TranslateSucceeds(req, result)
  \/ \E req \in cmp.requests : TranslateFails(req)

\* the whole pipeline
Next == Startup \/ ToggleListening \/ ClearText \/ Faults \/ Results \/ Timers \/ Translation

Spec == Init /\ [][Next]_vars

\* the listening supervisor in a silent room
InitSupervisor == InitIn(SupervisorEnv)

NextSupervisor ==
  \/ Startup
  \/ ToggleListening
  \/ Faults
  \/ \E id \in TimerIds : ListeningTimeoutFires(id)

SpecSupervisor == InitSupervisor /\ [][NextSupervisor]_vars

\* the restart ladder
InitBackoff == InitIn(BackoffEnv)

SpecBackoff == InitBackoff /\ [][NextSupervisor]_vars

\* the four kinds of timers
InitTimers == InitIn(TimersEnv)

NextTimers ==
  \/ Startup
  \/ ToggleListening
  \/ EngineEnded
  \/ \E id \in TimerIds : RestartTimeoutFires(id)
  \/ Results
  \/ Timers

SpecTimers == InitTimers /\ [][NextTimers]_vars

\* the speech buffer and the segments while the engine keeps running
InitSegments == InitIn(SegmentsEnv)

NextSegments == Startup \/ Results \/ Timers \/ Translation

SpecSegments == InitSegments /\ [][NextSegments]_vars

\* manual typing and speech
InitManual == InitIn(ManualEnv)

ManualTranslation ==
  \/ \E req \in cmp.manualRequests : \E result \in TranslateResults(req.text) :
       ManualSucceeds(req, result)
  \/ \E req \in cmp.manualRequests : ManualFails(req)

Typing ==
  \/ \E text \in env.typedTexts : OnTextChange(text)
  \/ DebounceFires

NextManual ==
  \/ Startup
  \/ Results
  \/ Typing
  \/ \E id \in TimerIds : PauseTimerFires(id)
  \/ Translation
  \/ ManualTranslation

SpecManual == InitManual /\ [][NextManual]_vars

\* stopping and leaving the page while translations are in flight
InitTeardown == InitIn(TeardownEnv)

NextTeardown ==
  \/ Startup
  \/ ToggleListening
  \/ NgOnDestroy
  \/ EngineEnded
  \/ Results
  \/ Timers
  \/ Translation

SpecTeardown == InitTeardown /\ [][NextTeardown]_vars

\* The supervisor with the scheduling the platform guarantees: a session of the
\* engine ends, a session that was started starts or ends, a timeout that is
\* armed expires, the permission prompt is answered.
FairSupervisor ==
  /\ WF_vars(EngineEnded)
  /\ WF_vars(EngineStarted)
  /\ WF_vars(\E id \in TimerIds : RestartTimeoutFires(id))
  /\ WF_vars(\E id \in TimerIds : ListeningTimeoutFires(id))
  /\ WF_vars(\E hasPermission \in env.permissions : PermissionResult(hasPermission))

InitStop == InitIn(StopEnv)

SpecSupervisorFair == InitStop /\ [][NextSupervisor]_vars /\ FairSupervisor

\* the guarded start
InitStart == InitIn(StartEnv)

SpecStart == InitStart /\ [][NextSupervisor]_vars

\* the pause in speech
InitPause == InitIn(PauseEnv)

SpecPause == InitPause /\ [][NextSegments]_vars

\* typing and speaking by turns
InitModes == InitIn(ModesEnv)

NextModes ==
  \/ Startup
  \/ Results
  \/ Typing
  \/ \E id \in TimerIds : PauseTimerFires(id)
  \/ Translation
  \/ ManualTranslation

SpecModes == InitModes /\ [][NextModes]_vars

\* clearing and switching while translations are in flight
InitClear == InitIn(ClearEnv)

NextClear ==
  \/ Startup
  \/ Results
  \/ Typing
  \/ ClearText
  \/ \E id \in TimerIds : PauseTimerFires(id)
  \/ Translation
  \/ ManualTranslation

SpecClear == InitClear /\ [][NextClear]_vars

\* The segments with the translation backend answering: while a request is in
\* flight, a response is delivered. This is the weak fairness of Translation
\* written out; Translation is enabled exactly when a request is in flight.
ResolveIds == 1..(ResolveSegments + 1)

FairTranslation == []<>(cmp.requests = {}) \/ []<><<Translation>>_vars

InitResolve == InitIn(ResolveEnv)

NextResolve ==
  \/ Startup
  \/ Results
  \/ ClearText
  \/ Timers
  \/ Translation

SpecResolve == InitResolve /\ [][NextResolve]_vars /\ FairTranslation

\* reading aloud
InitAloud == InitIn(AloudEnv)

NextAloud ==
  \/ Startup
  \/ Results
  \/ Typing
  \/ \E id \in TimerIds : PauseTimerFires(id)
  \/ SpeakingTimeoutFires
  \/ Translation
  \/ ManualTranslation

SpecAloud == InitAloud /\ [][NextAloud]_vars

\* the language selection
InitLanguage == InitIn(LanguageEnv)

NextLanguage ==
  \/ Startup
  \/ Results
  \/ Timers
  \/ Translation
  \/ \E languageCode \in env.languages : OnLanguageChange(languageCode)

SpecLanguage == InitLanguage /\ [][NextLanguage]_vars

\* the text functions on drawn inputs
InitText ==
  /\ svc = ServiceInit(FALSE, TRUE)
  /\ cmp = ComponentInit("")
  /\ hist = HistInit
  /\ env = PipelineEnv
  /\ TextInit

SpecText == InitText /\ [][TextNext]_vars

\* ------------------------------------------------------------ properties

\* ---- the speech buffer and the segments

\* listening has terminally stopped: nothing is listening, starting or due to restart
TerminallyStopped ==
  /\ ~svc.shouldBeListening
  /\ ~svc.isListeningSubject
  /\ svc.engine = "inactive"
  /\ svc.restartOut = {}
  /\ svc.permissionPending = 0

\* C1 as the claim states it: in streaming mode, once the pause timer has fired
\* or listening has terminally stopped, every non-whitespace character of the
\* finalized transcripts (since the last clearText) is in exactly one chunk
\* passed to appendSegment, in input order.
C1_DispatchedOnceAtPauseOrStop ==
  (~cmp.manualMode /\ (cmp.pauseOut = {} \/ TerminallyStopped)) => hist.sent = hist.heard

\* C1, what the code keeps: what was dispatched and what the buffer still holds
\* are together what was heard, in order, and a buffer that holds text has its
\* pause timer armed; so nothing is dispatched twice, and nothing is left once
\* the pause timer has fired.
C1_HeardIsSentOrBuffered ==
  ~cmp.manualMode =>
    /\ hist.sent \o NonSpace(cmp.speechBuffer) = hist.heard
    /\ cmp.speechBuffer # <<>> => cmp.pauseOut # {}

\* C1 witness of what the code keeps: text was heard, the pause timer fired, all
\* of it was dispatched
C1_Witness ==
  /\ hist.heard # <<>>
  /\ cmp.pauseOut = {}
  /\ hist.sent = hist.heard

\* the ids of the segments, in list order
segmentIds == [i \in 1..Len(cmp.segments) |-> cmp.segments[i].id]

\* what the row of a segment shows in the translated text
shownTranslated(seg) == IF seg.translating THEN Placeholder ELSE seg.translated

\* C2: the position of a segment is fixed at creation. The segment list is in
\* creation order (ids ascending) whatever the order of the responses, a
\* resolved segment holds the result delivered for its own id, and the rendered
\* original and translated texts list the segments in that order.
C2_SegmentsKeepCreationOrder ==
  ~cmp.manualMode =>
    /\ \A i, j \in 1..Len(cmp.segments) : i < j => segmentIds[i] < segmentIds[j]
    /\ \A i \in 1..Len(cmp.segments) :
         LET seg == cmp.segments[i]
         IN  /\ seg.translating => seg.translated = <<>>
             /\ ~seg.translating /\ cmp.selectedLanguage # "" =>
                  [id |-> seg.id, translated |-> seg.translated] \in hist.results
    /\ cmp.translatedText =
         joinWith([i \in 1..Len(cmp.segments) |-> shownTranslated(cmp.segments[i])]
                    \o (IF cmp.interimTranslated # <<>> THEN <<cmp.interimTranslated>> ELSE <<>>),
                  <<NewLine>>)
    /\ cmp.originalText =
         joinWith([i \in 1..Len(cmp.segments) |-> cmp.segments[i].original]
                    \o (IF cmp.interimOriginal # <<>> THEN <<cmp.interimOriginal>> ELSE <<>>),
                  <<NewLine>>)

\* C2 witness: three segments A, B, C were created, the response of C arrived
\* first, then that of A, B still waits; the rows are A, B, C
C2_Witness ==
  /\ Len(cmp.segments) = 3
  /\ segmentIds = <<1, 2, 3>>
  /\ ~cmp.segments[3].translating /\ cmp.segments[3].translated # <<>>
  /\ ~cmp.segments[1].translating /\ cmp.segments[1].translated # <<>>
  /\ cmp.segments[2].translating
  /\ cmp.translatedText =
       cmp.segments[1].translated \o <<NewLine>> \o Placeholder \o <<NewLine>>
         \o cmp.segments[3].translated

\* ---- the listening supervisor

\* the engine has a session that can report an error or end
EngineInSession == svc.engine \in {"starting", "active", "stopping", "ending"}

\* the delay of the restart scheduled with the given attempts behind it
ExpectedDelay(mobile, attempts, lastError) ==
  LET penalty == IF mobile /\ lastError = "no-speech" THEN NoSpeechPenalty ELSE 0
  IN  IF mobile
        THEN Min({RestartBaseMobile + attempts * RestartStepMobile + penalty, RestartCapMobile})
        ELSE Min({RestartBaseDesktop + attempts * RestartStepDesktop + penalty,
                  RestartCapDesktop})

\* C3: every engine onEnd received while shouldBeListening and not manually
\* stopped schedules one restart with delay min(base + attempts*step + penalty,
\* cap), attempts being restartAttempts before the increment, and increases
\* restartAttempts by exactly 1; the next engine onStart resets it to 0.
C3_RestartBackoff ==
  /\ (EngineInSession /\ svc.shouldBeListening /\ ~svc.isManuallyStopped) =>
       LET r == afterEngineEnded(Begin)
       IN  /\ Cardinality(r.restartOut) = 1
           /\ r.restartTimeout \in r.restartOut
           /\ r.restartDelay =
                ExpectedDelay(svc.isMobileDevice, svc.restartAttempts, svc.lastNonCriticalError)
           /\ r.restartAttempts = svc.restartAttempts + 1
  /\ svc.engine = "starting" => afterEngineStarted(Begin).restartAttempts = 0

\* C3 witness: on a mobile device, after no-speech, a restart is scheduled with
\* the capped delay, 5 attempts behind it (1500 + 5*500 + 1000 > 5000)
C3_Witness ==
  /\ svc.isMobileDevice
  /\ svc.lastNonCriticalError = "no-speech"
  /\ svc.restartOut # {}
  /\ svc.restartAttempts = 6
  /\ svc.restartDelay = RestartCapMobile

\* C4: an engine error of kind no-speech emits nothing (so the error stream, the
\* isListening$ stream and the component are untouched), calls nothing on the
\* engine, and leaves every field of the service but lastNonCriticalError, which
\* becomes 'no-speech'.
C4_NoSpeechOnlyRecorded ==
  EngineInSession =>
    \A ends \in BOOLEAN :
      LET before == [Begin EXCEPT !.engine = IF ends THEN engineEnding(@) ELSE @]
          r == afterEngineError(Begin, "no-speech", ends)
          c == Deliver(BeginC, r.emits)
      IN  /\ r.emits = <<>>
          /\ r.calls = <<>>
          /\ r = [before EXCEPT !.lastNonCriticalError = "no-speech"]
          /\ r.shouldBeListening = svc.shouldBeListening
          /\ r.isListeningSubject = svc.isListeningSubject
          /\ c = BeginC

\* C4 witness: no-speech was reported while listening, and all still listens
C4_Witness ==
  /\ svc.lastNonCriticalError = "no-speech"
  /\ svc.engine = "active"
  /\ svc.shouldBeListening
  /\ svc.isListeningSubject
  /\ cmp.isListening
  /\ cmp.errorMessage = ""

\* C5: when the inactivity timer fires, the supervisor marks itself manually
\* stopped, requests an engine stop and emits the error 'timeout', once; no
\* second 'timeout' is emitted unless startListening is called again, and until
\* then the supervisor stays manually stopped.
C5_TimeoutOnce ==
  /\ \A id \in svc.listeningOut :
       LET r == afterListeningTimeout(Begin, id)
       IN  /\ r.isManuallyStopped
           /\ r.calls = <<"stop">>
           /\ r.engine \in {"inactive", "stopping", "ending"}
           /\ r.emits = <<ErrorEvent("timeout")>>
           /\ r.listeningOut = {}
  /\ hist.timeouts <= 1
  /\ hist.timeouts = 1 => svc.isManuallyStopped

\* C5 witness: the timer fired in a session that had heard speech, the engine
\* ended: one timeout, shown, no timer left, and nothing listens
C5_Witness ==
  /\ hist.timeouts = 1
  /\ hist.heard # <<>>
  /\ svc.isManuallyStopped
  /\ svc.engine = "inactive"
  /\ svc.listeningOut = {}
  /\ cmp.errorMessage = "timeout"
  /\ ~cmp.isListening

\* ---- what the properties of the text functions are stated with

\* the position of the last sentence terminator of text t, 0 if it has none
lastTerminator(t) == Max({0} \cup {i \in 1..Len(t) : isSentenceTerminator(t[i])})

\* the text up to and including its last terminator, and the text after it
uptoLastTerminator(t) == SubSeq(t, 1, lastTerminator(t))

afterLastTerminator(t) == SubSeq(t, lastTerminator(t) + 1, Len(t))

\* a text with its ends trimmed and every run of whitespace made one space
normalized(t) == trim(collapseWhitespace(t))

\* a normalized text with one space after each terminator that a sentence follows
RECURSIVE sentencesSpaced(_)
sentencesSpaced(t) ==
  LET tight == {i \in 1..(Len(t) - 1) : isSentenceTerminator(t[i]) /\ ~IsSpace(t[i + 1])}
  IN  IF tight = {} THEN t
      ELSE SubSeq(t, 1, Min(tight)) \o <<" ">>
             \o sentencesSpaced(SubSeq(t, Min(tight) + 1, Len(t)))

\* the drawn buffer was flushed, forced or not
Flushed(force) == tOut.op = "flush" /\ tIn.force = force

\* the drawn buffer holds completed sentences and an unterminated remainder
HoldsSentencesAndRemainder ==
  /\ lastTerminator(tIn.text) > 0
  /\ trim(afterLastTerminator(tIn.text)) # <<>>

\* C6 as the claim states it: a forced flush of a buffer that holds completed
\* sentences and an unterminated remainder dispatches the remainder as one more
\* chunk of its own, after the chunks of the completed sentences; "Hello there.
\* How are" yields the two chunks "Hello there." and "How are".
C6_RemainderIsOwnChunk ==
  (Flushed(TRUE) /\ HoldsSentencesAndRemainder) =>
    /\ tOut.chunks # <<>>
    /\ tOut.chunks[Len(tOut.chunks)] = normalized(afterLastTerminator(tIn.text))
    /\ tOut.rest = <<>>
    /\ tIn.text = ExampleBuffer => tOut.chunks = <<ExampleSentence, ExampleRemainder>>

\* C6 amended: a forced flush of a buffer that holds completed sentences and an
\* unterminated remainder dispatches the sentences and the remainder in order,
\* packed into chunks of at most 450 characters: one chunk, the sentences and
\* the remainder joined by single spaces, when that fits ("Hello there. How are"
\* yields the one chunk "Hello there. How are"); every non-whitespace character
\* of the buffer is in the chunks, in order; pendingText is empty afterwards.
C6_ForcedFlushPacksRemainder ==
  (Flushed(TRUE) /\ HoldsSentencesAndRemainder) =>
    LET joined == sentencesSpaced(normalized(tIn.text))
    IN  /\ tOut.rest = <<>>
        /\ \A i \in 1..Len(tOut.chunks) :
             tOut.chunks[i] # <<>> /\ Len(tOut.chunks[i]) <= QueryMaxChars
        /\ NonSpace(Flatten(tOut.chunks)) = NonSpace(tIn.text)
        /\ Len(joined) <= QueryMaxChars => tOut.chunks = <<joined>>
        /\ tIn.text = ExampleBuffer => tOut.chunks = <<ExampleBuffer>>
        /\ tIn.text = LongBuffer =>
             tOut.chunks = <<LongSentence, LongSentence \o <<" ", "b">> >>

\* C6 witness: the forced flush of "Hello there. How are" has run and left one chunk
C6_Witness ==
  /\ Flushed(TRUE)
  /\ tIn.text = ExampleBuffer
  /\ HoldsSentencesAndRemainder
  /\ Len(tOut.chunks) = 1

\* C7 as the claim states it: after a non-forced flush pendingText is exactly the
\* text after the last terminator, and a buffer without a terminator is left
\* unchanged.  The buffer is one the component can hold: trimmed.
C7_RemainderExactlyKept ==
  (Flushed(FALSE) /\ tIn.text = trim(tIn.text)) =>
    /\ tOut.rest = trim(afterLastTerminator(tIn.text))
    /\ lastTerminator(tIn.text) = 0 => tOut.rest = tIn.text

\* C7 amended: a non-forced flush dispatches the text up to and including the last
\* terminator of the buffer and nothing after it; what pendingText holds
\* afterwards is the text after the last terminator with its ends trimmed and
\* every run of whitespace collapsed to one space ("Hello there. How are"
\* dispatches "Hello there." and retains "How are"); a buffer with no terminator
\* dispatches nothing and keeps its text, whitespace collapsed likewise.
C7_NonForcedFlushKeepsRemainder ==
  (Flushed(FALSE) /\ tIn.text = trim(tIn.text) /\ tIn.text # <<>>) =>
    LET sent == sentencesSpaced(normalized(uptoLastTerminator(tIn.text)))
    IN  /\ tOut.rest = normalized(afterLastTerminator(tIn.text))
        /\ NonSpace(Flatten(tOut.chunks)) = NonSpace(uptoLastTerminator(tIn.text))
        /\ Len(sent) <= QueryMaxChars =>
             tOut.chunks = IF sent = <<>> THEN <<>> ELSE <<sent>>
        /\ lastTerminator(tIn.text) = 0 =>
             tOut.chunks = <<>> /\ tOut.rest = normalized(tIn.text)
        /\ tIn.text = ExampleBuffer =>
             tOut.chunks = <<ExampleSentence>> /\ tOut.rest = ExampleRemainder

\* C7 witness: the non-forced flush of "Hello there. How are" has run, dispatched
\* something and kept something
C7_Witness ==
  /\ Flushed(FALSE)
  /\ tIn.text = ExampleBuffer
  /\ tOut.chunks # <<>>
  /\ tOut.rest # <<>>

\* ---- packIntoChunks

\* the parts packIntoChunks packs: trimmed, the blank ones skipped
packable(parts) ==
  LET trimmed == [i \in 1..Len(parts) |-> trim(parts[i])]
  IN  SelectSeq(trimmed, LAMBDA p : p # <<>>)

\* with breaks (the places after which a new chunk starts) the chunk that part i
\* ends: the parts since the last break before i, joined by single spaces
currentChunk(P, breaks, i) ==
  LET start == 1 + Max({0} \cup {b \in breaks : b < i})
  IN  joinWith(SubSeq(P, start, i), <<" ">>)

\* a new chunk starts after part i exactly when the current chunk, a space and
\* the next part are longer than the limit
Greedy(P, breaks, maxChars) ==
  \A i \in 1..(Len(P) - 1) :
    i \in breaks <=> Len(currentChunk(P, breaks, i) \o <<" ">> \o P[i + 1]) > maxChars

\* the groups the breaks make, each joined by single spaces, in order
RECURSIVE groupsFrom(_, _, _)
groupsFrom(P, breaks, from) ==
  IF from > Len(P) THEN <<>>
  ELSE LET to == Min({Len(P)} \cup {b \in breaks : b >= from})
       IN  <<joinWith(SubSeq(P, from, to), <<" ">>)>> \o groupsFrom(P, breaks, to + 1)

\* a group that is itself longer than the limit is cut by chunkText
RECURSIVE cutGroups(_, _)
cutGroups(groups, maxChars) ==
  IF groups = <<>> THEN <<>>
  ELSE chunkText(Head(groups), maxChars) \o cutGroups(Tail(groups), maxChars)

\* C8: packIntoChunks is greedy. Two consecutive parts are in the same chunk
\* exactly when the current chunk joined with the next part by one space is no
\* longer than the limit; the chunks keep the order and the non-whitespace
\* content of the parts; when no part is longer than the limit the chunks are
\* the greedy groups themselves.
C8_PackIsGreedy ==
  (tOut.op = "pack") =>
    LET P == packable(tIn.parts)
    IN  /\ \E breaks \in SUBSET (1..(Len(P) - 1)) :
             /\ Greedy(P, breaks, tIn.max)
             /\ tOut.chunks = cutGroups(groupsFrom(P, breaks, 1), tIn.max)
             /\ (\A i \in 1..Len(P) : Len(P[i]) <= tIn.max) =>
                  tOut.chunks = groupsFrom(P, breaks, 1)
        /\ NonSpace(Flatten(tOut.chunks)) = NonSpace(Flatten(tIn.parts))
        /\ \A i \in 1..Len(tOut.chunks) : Len(tOut.chunks[i]) <= tIn.max

\* C8 witness: three sentences were packed with limit 4: the first two fit one
\* chunk of exactly 4 characters, the third starts a new chunk
C8_Witness ==
  /\ tOut.op = "pack"
  /\ tIn.parts = << <<"a", ".">>, <<"e">>, <<"b", "b", "!">> >>
  /\ tIn.max = 4
  /\ tOut.chunks = << <<"a", ".", " ", "e">>, <<"b", "b", "!">> >>

\* ---- the timers and the critical errors

\* C9: there is at most one outstanding timer of each kind, and it is the one
\* the handle of its kind names: a superseded timer is cancelled and never fires.
C9_OneTimerPerKind ==
  /\ Cardinality(svc.listeningOut) <= 1 /\ svc.listeningOut \subseteq {svc.listeningTimeout}
  /\ Cardinality(svc.restartOut) <= 1 /\ svc.restartOut \subseteq {svc.restartTimeout}
  /\ Cardinality(cmp.pauseOut) <= 1 /\ cmp.pauseOut \subseteq {cmp.speechPauseTimer}
  /\ Cardinality(cmp.scrollOut) <= 1 /\ cmp.scrollOut \subseteq {cmp.scrollScheduleTimer}

\* C9 witness: a second final transcript arrived while the timers of the first
\* were armed and re-armed the inactivity and the pause timer, the display
\* changed again before the scroll ran, and the session ended and scheduled a
\* restart: one timer of each of the four kinds is outstanding
C9_Witness ==
  /\ hist.finals >= 2
  /\ Cardinality(svc.listeningOut) = 1
  /\ Cardinality(svc.restartOut) = 1
  /\ Cardinality(cmp.pauseOut) = 1
  /\ Cardinality(cmp.scrollOut) = 1

\* C10: an engine error of kind not-allowed, audio-capture or
\* service-not-allowed is emitted on the error stream and stops listening:
\* shouldBeListening is false, manuallyStopped is true, no inactivity and no
\* restart timer is left; and the engine onEnd that follows, with or without a
\* last result before it, is terminal: it schedules no restart, emits
\* isListening false and leaves the engine idle.
C10_CriticalErrorStops ==
  EngineInSession =>
    \A kind \in CriticalErrors, ends \in BOOLEAN, final \in {<<>>, <<"b">>} :
      LET r == afterEngineError(Begin, kind, ends)
          l == IF final = <<>> \/ r.engine \notin {"active", "stopping"} THEN Fresh(r)
               ELSE afterEngineResult(Fresh(r), final, <<>>)
          e == afterEngineEnded(Fresh(l))
      IN  /\ r.emits = <<ErrorEvent(kind)>>
          /\ ~r.shouldBeListening
          /\ r.isManuallyStopped
          /\ r.listeningOut = {} /\ r.listeningTimeout = 0
          /\ r.restartOut = {} /\ r.restartTimeout = 0
          /\ svc.isListeningSubject => r.calls = <<"stop">>
          /\ l.listeningOut = {}
          /\ e.restartOut = {}
          /\ e.restartAttempts = svc.restartAttempts
          /\ e.emits = <<ListeningEvent(FALSE)>>
          /\ e.engine = "inactive"
          /\ e.calls = <<>>

\* C10 witness: the engine reported not-allowed while listening and then ended:
\* the error is shown, nothing listens, nothing is scheduled
C10_Witness ==
  /\ svc.lastNonCriticalError = "not-allowed"
  /\ cmp.errorMessage = "not-allowed"
  /\ svc.engine = "inactive"
  /\ ~svc.shouldBeListening
  /\ svc.isManuallyStopped
  /\ ~svc.isListeningSubject
  /\ svc.restartOut = {} /\ svc.listeningOut = {}

\* ---- errors, stops and refusals

\* the error kinds that are neither no-speech nor critical
OtherErrorKinds == EngineErrorKinds \ ({"no-speech"} \cup CriticalErrors)

\* C11 as the claim states it: an engine error of a kind other than no-speech
\* and the critical kinds is emitted, calls nothing on the engine, leaves
\* shouldBeListening, lets a following onEnd schedule a restart, and does not turn
\* the listening state the user is shown to false.
C11_OtherErrorsKeepListening ==
  EngineInSession =>
    \A kind \in OtherErrorKinds, ends \in BOOLEAN :
      LET r == afterEngineError(Begin, kind, ends)
          c == Deliver(BeginC, r.emits)
          e == afterEngineEnded(Fresh(r))
      IN  /\ r.emits = <<ErrorEvent(kind)>>
          /\ r.calls = <<>>
          /\ r.shouldBeListening = svc.shouldBeListening
          /\ r.isManuallyStopped = svc.isManuallyStopped
          /\ (r.shouldBeListening /\ ~r.isManuallyStopped) =>
                (Cardinality(e.restartOut) = 1 /\ e.emits = <<>>)
          /\ cmp.isListening => c.isListening

\* C11, what the code keeps: the service goes on listening after such an error
\* (the error is emitted, nothing is stopped, a following onEnd restarts).
C11_ServiceKeepsListening ==
  EngineInSession =>
    \A kind \in OtherErrorKinds, ends \in BOOLEAN :
      LET r == afterEngineError(Begin, kind, ends)
          e == afterEngineEnded(Fresh(r))
      IN  /\ r.emits = <<ErrorEvent(kind)>>
          /\ r.calls = <<>>
          /\ r.shouldBeListening = svc.shouldBeListening
          /\ r.isManuallyStopped = svc.isManuallyStopped
          /\ (r.shouldBeListening /\ ~r.isManuallyStopped) =>
                (Cardinality(e.restartOut) = 1 /\ e.emits = <<>>)

\* C12: in any state, stopListening() leaves manuallyStopped true and
\* shouldBeListening false and cancels the inactivity timer and the restart
\* timer before it returns: no timer of either kind is left to fire.
C12_StopCancelsBothTimers ==
  LET r == stopListening(Begin)
  IN  /\ r.isManuallyStopped
      /\ ~r.shouldBeListening
      /\ r.listeningOut = {} /\ r.listeningTimeout = 0
      /\ r.restartOut = {} /\ r.restartTimeout = 0

\* C12 witness: the session had ended unexpectedly and a restart was pending
\* when the user stopped: no timer is left, nothing will start
C12_Witness ==
  /\ hist.cause = "stop"
  /\ svc.isManuallyStopped
  /\ ~svc.shouldBeListening
  /\ svc.engine = "inactive"
  /\ svc.restartAttempts >= 1
  /\ svc.isListeningSubject
  /\ svc.listeningOut = {} /\ svc.restartOut = {}

\* C13: stopListening() is idempotent. In any state a second call right after
\* the first leaves every field of the supervisor and the emitted events as the
\* first call left them (only the engine is asked to stop again, which an engine
\* that is stopping ignores), and a call when nothing listens calls nothing.
C13_StopIsIdempotent ==
  LET once  == stopListening(Begin)
      twice == stopListening(once)
  IN  /\ [twice EXCEPT !.calls = once.calls] = once
      /\ twice.emits = once.emits
      /\ afterEngineEnded(Fresh(twice)) = afterEngineEnded(Fresh(once))
      /\ ~svc.isListeningSubject => (once.calls = <<>> /\ once.engine = svc.engine)

\* C13 witness: the user stopped while listening; until the engine ends the
\* button still stops, and a second stop leaves this very state
C13_Witness ==
  /\ hist.cause = "stop"
  /\ svc.lastNonCriticalError = Null
  /\ svc.engine = "stopping"
  /\ svc.isManuallyStopped
  /\ ~svc.shouldBeListening
  /\ svc.isListeningSubject
  /\ cmp.isListening
  /\ [stopListening(Begin) EXCEPT !.calls = <<>>] = Begin

\* C14 as the claim states it: a startListening whose permission is refused
\* emits 'not-allowed', calls nothing on the engine, arms no inactivity timer
\* and leaves shouldBeListening as it was before the call.
C14_RefusalLeavesIntent ==
  (svc.recognition /\ svc.permissionPending = 0) =>
    LET r == startListeningResume(startListeningCall(Begin), FALSE)
    IN  /\ r.emits = <<ErrorEvent("not-allowed")>>
        /\ r.calls = <<>>
        /\ r.listeningOut = svc.listeningOut
        /\ r.shouldBeListening = svc.shouldBeListening

\* C14, what the code keeps: the refusal is emitted, the engine is not started
\* and no inactivity timer is armed; shouldBeListening is true after it.
C14_RefusalStartsNothing ==
  (svc.recognition /\ svc.permissionPending = 0) =>
    LET r == startListeningResume(startListeningCall(Begin), FALSE)
    IN  /\ r.emits = <<ErrorEvent("not-allowed")>>
        /\ r.calls = <<>>
        /\ r.listeningOut = svc.listeningOut
        /\ r.engine = svc.engine
        /\ r.shouldBeListening

\* a handler that does not emit isListening false
KeepsListeningState(r) == \A i \in 1..Len(r.emits) : r.emits[i] # ListeningEvent(FALSE)

\* C15: on engine onEnd isRecognizing becomes false; isListening false is
\* emitted and the inactivity timer cancelled exactly when manuallyStopped or not
\* shouldBeListening, and otherwise one restart is scheduled and nothing is
\* emitted. No other handler emits isListening false, and an onEnd can be
\* terminal while the stream is true only after an explicit stop or an
\* inactivity timeout that no later start has undone.
C15_EndIsTerminalOrRestarts ==
  /\ EngineInSession =>
       LET r == afterEngineEnded(Begin)
       IN  /\ ~r.isRecognizing
           /\ IF svc.isManuallyStopped \/ ~svc.shouldBeListening
                 THEN /\ r.emits = <<ListeningEvent(FALSE)>>
                      /\ ~r.isListeningSubject
                      /\ r.listeningOut = {} /\ r.listeningTimeout = 0
                      /\ r.restartOut = svc.restartOut
                      /\ r.restartAttempts = svc.restartAttempts
                 ELSE /\ r.emits = <<>>
                      /\ r.isListeningSubject = svc.isListeningSubject
                      /\ Cardinality(r.restartOut) = 1
                      /\ r.restartAttempts = svc.restartAttempts + 1
                      /\ r.listeningOut = svc.listeningOut
  /\ KeepsListeningState(stopListening(Begin))
  /\ KeepsListeningState(startListeningCall(Begin))
  /\ \A hasPermission \in BOOLEAN :
       svc.permissionPending > 0 =>
         KeepsListeningState(startListeningResume(Begin, hasPermission))
  /\ svc.engine = "starting" => KeepsListeningState(afterEngineStarted(Begin))
  /\ EngineInSession =>
       \A kind \in EngineErrorKinds, ends \in BOOLEAN :
         KeepsListeningState(afterEngineError(Begin, kind, ends))
  /\ \A id \in svc.listeningOut : KeepsListeningState(afterListeningTimeout(Begin, id))
  /\ \A id \in svc.restartOut : KeepsListeningState(afterRestartTimeout(Begin, id))
  /\ (svc.isListeningSubject /\ (svc.isManuallyStopped \/ ~svc.shouldBeListening)) =>
       hist.cause \in {"stop", "timeout"}

\* C15 witness: the session ended unexpectedly while listening: a restart is
\* scheduled, the stream and the user still see listening
C15_Witness ==
  /\ svc.engine = "inactive"
  /\ svc.shouldBeListening /\ ~svc.isManuallyStopped
  /\ hist.cause = "none"
  /\ svc.restartOut # {}
  /\ svc.restartAttempts >= 1
  /\ svc.isListeningSubject
  /\ cmp.isListening

\* ---- manual typing, teardown, translate responses

\* the transcripts drawn to end manual typing: with and without a sentence end
SwitchTexts == { <<"a", ".">>, <<"b">> }

\* the originals of a segment list followed by the interim text, as rendered
renderedOriginal(c) ==
  joinWith([i \in 1..Len(c.segments) |-> c.segments[i].original]
             \o (IF c.interimOriginal # <<>> THEN <<c.interimOriginal>> ELSE <<>>),
           <<NewLine>>)

\* C16: a transcript event, final or interim, received in manual-typing mode
\* switches to streaming mode and starts from nothing: the segments, the interim
\* text and the speech buffer of before are gone, and the event itself is
\* processed as usual. A final text is buffered and flushed without force (its
\* completed sentences become the only segments, its remainder the buffer), an
\* interim text is shown after an empty buffer; the pause timer is armed once
\* and the display is rebuilt from the new segments.
C16_TranscriptEndsManualMode ==
  cmp.manualMode =>
    \A text \in SwitchTexts, isFinal \in BOOLEAN :
      LET r == onTranscript(BeginC, text, isFinal)
      IN  /\ ~r.manualMode
          /\ Cardinality(r.pauseOut) = 1 /\ r.speechPauseTimer \in r.pauseOut
          /\ r.interimTranslated = <<>>
          /\ r.originalText = renderedOriginal(r)
          /\ IF isFinal
                THEN /\ r.dispatched = flushPieces(text, FALSE)
                     /\ r.speechBuffer = flushRemainder(text, FALSE)
                     /\ r.interimOriginal = r.speechBuffer
                     /\ Len(r.segments) = Len(r.dispatched)
                     /\ \A i \in 1..Len(r.segments) :
                          /\ r.segments[i].original =
                               truncateForQuery(r.dispatched[i], QueryMaxChars)
                          /\ r.segments[i].id = cmp.nextSegmentId + i - 1
                ELSE /\ r.dispatched = <<>>
                     /\ r.segments = <<>>
                     /\ r.speechBuffer = <<>>
                     /\ r.interimOriginal = text

\* C16 witness: "b" was heard and buffered, the user typed, then "a." was heard:
\* streaming again, the only segment ever created is "a.", and "b" is gone
C16_Witness ==
  /\ hist.switched
  /\ hist.finals = 2
  /\ ~cmp.manualMode
  /\ cmp.nextSegmentId = 2
  /\ Len(cmp.segments) = 1
  /\ cmp.segments[1].id = 1
  /\ cmp.segments[1].original = <<"a", ".">>
  /\ cmp.speechBuffer = <<>>
  /\ hist.heard = <<"a", ".">>

\* C17 as the claim states it: once the component is torn down no timer of the
\* pipeline is outstanding (inactivity, restart, pause, scroll, countdown,
\* auto-start), so that no timer expiry starts the engine again.
C17_TeardownCancelsEveryTimer ==
  cmp.destroyed =>
    /\ svc.listeningOut = {}
    /\ svc.restartOut = {}
    /\ cmp.pauseOut = {}
    /\ cmp.scrollOut = {}
    /\ ~cmp.countdownInterval
    /\ cmp.autoStartOut = 0

\* C17, what the code keeps: when ngOnDestroy returns, the inactivity, restart,
\* pause and scroll timers and the countdown are cancelled and listening is
\* stopped, also when nothing was listening.
C17_TeardownClearsHandles ==
  ~cmp.destroyed =>
    LET s == stopListening(Begin)
        c == ngOnDestroy(BeginC)
    IN  /\ s.listeningOut = {} /\ s.restartOut = {}
        /\ s.isManuallyStopped /\ ~s.shouldBeListening
        /\ svc.isListeningSubject => s.calls = <<"stop">>
        /\ c.pauseOut = {} /\ c.scrollOut = {}
        /\ ~c.countdownInterval
        /\ c.destroyed

\* C17, the engine after teardown: the auto-start timeout that outlived the
\* component has called startListening and the engine runs (never holds).
C17_NothingListensAfterTeardown ==
  cmp.destroyed => ~(svc.engine = "active" /\ svc.shouldBeListening /\ svc.listeningOut # {})

\* C18 as the claim states it: when the translate request of a segment fails,
\* the segment is resolved with an empty translation and translating false, a
\* message is shown to the user, and no request is issued for the segment.
C18_FailureIsSurfaced ==
  \A req \in cmp.requests :
    LET r   == afterTranslateError(BeginC, req)
        idx == segmentIndex(cmp.segments, req.id)
    IN  /\ idx # 0 => (r.segments[idx].translated = <<>> /\ ~r.segments[idx].translating)
        /\ r.requests = cmp.requests \ {req}
        /\ r.errorMessage # ""

\* C18, what the code keeps: the segment is resolved empty, not translating, and
\* nothing is requested again; the message shown stays what it was.
C18_FailureResolvesSegment ==
  \A req \in cmp.requests :
    LET r   == afterTranslateError(BeginC, req)
        idx == segmentIndex(cmp.segments, req.id)
    IN  /\ idx # 0 => (r.segments[idx].translated = <<>> /\ ~r.segments[idx].translating)
        /\ r.requests = cmp.requests \ {req}
        /\ r.errorMessage = cmp.errorMessage

\* C19: a translate response with the service's error marker resolves its
\* segment with an empty translation, translating false, and sets a warning; a
\* response without it stores the translated text, translating false, and
\* leaves the message. Every other segment is left as it was.
C19_ResponseResolvesItsSegment ==
  \A req \in cmp.requests : \A result \in TranslateResults(req.text) :
    LET r      == afterTranslateNext(BeginC, req, result)
        idx    == segmentIndex(cmp.segments, req.id)
        stored == IF result.error THEN <<>> ELSE result.translatedText
    IN  /\ Len(r.segments) = Len(cmp.segments)
        /\ \A i \in 1..Len(cmp.segments) :
             r.segments[i] =
               IF i = idx
                 THEN [cmp.segments[i] EXCEPT !.translated = stored, !.translating = FALSE]
                 ELSE cmp.segments[i]
        /\ r.errorMessage =
             IF result.error THEN "translation-unavailable" ELSE cmp.errorMessage
        /\ r.requests = cmp.requests \ {req}

\* C19 witness: of three segments one got a response with the error marker
\* (empty, warning shown), one a translation (stored), one still waits
C19_Witness ==
  /\ Len(cmp.segments) = 3
  /\ cmp.errorMessage = "translation-unavailable"
  /\ \E i, j, k \in 1..3 :
       /\ ~cmp.segments[i].translating /\ cmp.segments[i].translated = <<>>
       /\ [id |-> cmp.segments[i].id, translated |-> <<>>] \in hist.results
       /\ ~cmp.segments[j].translating
       /\ cmp.segments[j].translated = Translated(cmp.segments[j].original)
       /\ cmp.segments[k].translating /\ cmp.segments[k].translated = <<>>

\* the translated rows of a segment list followed by the interim text, as rendered
renderedTranslated(c) ==
  joinWith([i \in 1..Len(c.segments) |-> renderTranslated(c.segments[i])]
             \o (IF c.interimTranslated # <<>> THEN <<c.interimTranslated>> ELSE <<>>),
           <<NewLine>>)

\* C20: stopping listening cancels no translate request. stopListening, the
\* terminal onEnd and ngOnDestroy leave every request in flight, every segment
\* still translating has its request in flight in every state, and a response
\* that arrives when listening is stopped resolves its segment and the rendered
\* text is rebuilt with it.
C20_StopCancelsNoTranslation ==
  /\ Deliver(BeginC, stopListening(Begin).emits).requests = cmp.requests
  /\ ngOnDestroy(BeginC).requests = cmp.requests
  /\ EngineInSession =>
       cmp.requests \subseteq Deliver(BeginC, afterEngineEnded(Begin).emits).requests
  /\ \A i \in 1..Len(cmp.segments) :
       cmp.segments[i].translating => \E req \in cmp.requests : req.id = cmp.segments[i].id
  /\ ~svc.shouldBeListening =>
       \A req \in cmp.requests : \A result \in TranslateResults(req.text) :
         LET r      == afterTranslateNext(BeginC, req, result)
             idx    == segmentIndex(cmp.segments, req.id)
             stored == IF result.error THEN <<>> ELSE result.translatedText
         IN  /\ idx # 0
             /\ r.segments[idx].translated = stored
             /\ ~r.segments[idx].translating
             /\ r.translatedText = renderedTranslated(r)

\* C20 witness: the user stopped, the engine ended, and then the translation of
\* the segment arrived: it is stored and shown
C20_Witness ==
  /\ hist.late
  /\ TerminallyStopped
  /\ Len(cmp.segments) = 1
  /\ ~cmp.segments[1].translating
  /\ cmp.segments[1].translated = Translated(cmp.segments[1].original)
  /\ cmp.translatedText = cmp.segments[1].translated

\* ---- stopping, starting and restarting the engine

\* stopListening was called, and startListening has not been called after it
StoppedLast == hist.cause = "stop" /\ ~svc.shouldBeListening

\* C21 as the claim states it: after stopListening is called in any reachable
\* state, the isListening stream eventually emits false (unless startListening
\* is called again), so the page cannot stay listening with no engine running
\* and no restart pending.
C21_StopEventuallyEmitsFalse ==
  StoppedLast ~> (~svc.isListeningSubject \/ ~StoppedLast)

\* C21, what the code keeps: when stopListening finds a session of the engine,
\* the session ends and the stream emits false.
C21_StoppedSessionEmitsFalse ==
  (StoppedLast /\ svc.engine # "inactive") ~> (~svc.isListeningSubject \/ ~StoppedLast)

\* C21, the state the page stays in: stopListening ran between an unexpected
\* onend and the restart; the stream still holds true, no session is left to
\* end and nothing is pending (never holds).
C21_NeverStuckListening ==
  ~(/\ StoppedLast
    /\ svc.isListeningSubject /\ cmp.isListening
    /\ svc.engine = "inactive"
    /\ svc.restartOut = {} /\ svc.listeningOut = {}
    /\ svc.permissionPending = 0 /\ cmp.autoStartOut = 0)

\* a handler that called recognition.start() or left the inactivity timeout armed
StartsOrArms(r) == (\E i \in 1..Len(r.calls) : r.calls[i] = "start") \/ r.listeningOut # {}

\* what the callbacks of the engine and of the restart timeout that can run next
\* leave, each applied to the present state
EnabledEngineResults ==
  {afterRestartTimeout(Begin, id) : id \in svc.restartOut}
  \cup (IF svc.engine = "starting" THEN {afterEngineStarted(Begin)} ELSE {})
  \cup (IF EngineInSession
          THEN {afterEngineEnded(Begin)}
               \cup {afterEngineError(Begin, kind, ends) : kind \in env.kinds, ends \in BOOLEAN}
          ELSE {})

\* what a startListening call that is waiting leaves when the permission is answered
EnabledPermissionResults ==
  {startListeningResume(Begin, hasPermission) :
     hasPermission \in IF svc.permissionPending > 0 THEN env.permissions ELSE {}}

\* C22 as the claim states it: once stopListening has returned and no
\* startListening call begins after it, the supervisor never calls engine start
\* and never arms the inactivity timer, also when stopListening ran while an
\* earlier startListening was waiting for the permission.
C22_NothingStartsAfterStop ==
  StoppedLast =>
    /\ svc.listeningOut = {}
    /\ \A r \in EnabledEngineResults \cup EnabledPermissionResults : ~StartsOrArms(r)

\* C22, what the code keeps: stopListening leaves no timeout armed, and after it
\* no callback of the engine or of the restart timeout calls engine start or arms
\* the inactivity timeout; only a startListening call that was waiting does.
C22_OnlyAWaitingStartResumes ==
  /\ stopListening(Begin).listeningOut = {}
  /\ stopListening(Begin).restartOut = {}
  /\ StoppedLast =>
       \A r \in EnabledEngineResults :
         /\ \A i \in 1..Len(r.calls) : r.calls[i] # "start"
         /\ r.listeningOut \subseteq svc.listeningOut
         /\ ~r.armedTimeout

\* C22, the engine after a stop: stopListening ran while a startListening call
\* was waiting, the permission was granted, and the engine runs with the
\* inactivity timeout armed (never holds).
C22_NoSessionAfterStop ==
  ~(StoppedLast /\ svc.engine = "active" /\ svc.listeningOut # {} /\ ~svc.isManuallyStopped)

\* C23 as the claim states it: stopListening requests an engine stop when the
\* engine is active, and makes no engine stop request when it is not active
\* (as between an unexpected onend and the scheduled restart).
C23_StopRequestedIffActive ==
  svc.recognition =>
    stopListening(Begin).calls = IF svc.isRecognizing THEN <<"stop">> ELSE <<>>

\* C23, what the code keeps: stopListening requests an engine stop exactly when
\* the isListening stream holds true, which it does whenever the engine is
\* active; the request leaves an engine without a session as it is.
C23_StopRequestedIffStreamTrue ==
  /\ svc.isRecognizing => svc.isListeningSubject
  /\ svc.recognition =>
       LET r == stopListening(Begin)
       IN  /\ r.calls = IF svc.isListeningSubject THEN <<"stop">> ELSE <<>>
           /\ svc.engine = "inactive" => r.engine = "inactive"

\* nothing is pending in the supervisor: no permission is awaited, no restart is
\* scheduled, the engine is neither starting nor ending
Settled ==
  /\ svc.permissionPending = 0
  /\ svc.restartOut = {}
  /\ svc.engine \in {"inactive", "active"}

C25_RestartOnlyWhenStillListening ==
  /\ \A id \in svc.restartOut :
       LET r == afterRestartTimeout(Begin, id)
       IN  IF svc.shouldBeListening /\ ~svc.isManuallyStopped
             THEN /\ r.lastNonCriticalError = Null
                  /\ r.calls = IF svc.isRecognizing THEN <<>> ELSE <<"start">>
                  /\ (svc.engine = "inactive") => (r.engine = "starting")
             ELSE r = [Begin EXCEPT !.restartOut = @ \ {id}]
  /\ \A tid \in svc.listeningOut :
       LET t == Fresh(afterListeningTimeout(Begin, tid))
       IN  /\ t.isManuallyStopped
           /\ t.restartOut = svc.restartOut
           /\ \A id \in t.restartOut :
                afterRestartTimeout(t, id) = [t EXCEPT !.restartOut = @ \ {id}]
  /\ (hist.cause = "timeout" /\ svc.isManuallyStopped) =>
       \A r \in EnabledEngineResults :
         /\ \A i \in 1..Len(r.calls) : r.calls[i] # "start"
         /\ r.engine # "starting"
         /\ r.restartOut \subseteq svc.restartOut

\* C25 witness: the engine ended and a restart was scheduled; the inactivity
\* timeout fired before the restart delay elapsed; the restart callback ran and
\* started nothing
C25_Witness ==
  /\ hist.cause = "timeout"
  /\ svc.shouldBeListening /\ svc.isManuallyStopped
  /\ svc.engine = "inactive"
  /\ svc.isListeningSubject
  /\ svc.restartOut = {}
  /\ svc.restartAttempts >= 1

\* ---- the inactivity timeout and the pause timeout

\* the transcripts a result is drawn to carry: none, blank, or heard
ResultTexts == env.finalTexts \cup env.interimTexts \cup {<<>>, <<" ">>}

\* C26: an engine result with non-blank final or interim text while
\* shouldBeListening is true cancels the armed inactivity timeout and arms a new
\* one, so the only timeout outstanding was armed at the last such result (or at
\* startListening); a result while shouldBeListening is false, a blank result,
\* onend, onstart and the restart callback arm none.
C26_ResultsRearmInactivityTimer ==
  /\ svc.listeningOut \subseteq {svc.listeningTimeout}
  /\ svc.engine \in {"active", "stopping"} =>
       \A final \in ResultTexts, interim \in ResultTexts :
         LET r == afterEngineResult(Begin, final, interim)
         IN  IF (trim(final) # <<>> \/ trim(interim) # <<>>) /\ svc.shouldBeListening
               THEN /\ r.armedTimeout
                    /\ Cardinality(r.listeningOut) = 1
                    /\ r.listeningOut = {r.listeningTimeout}
               ELSE /\ ~r.armedTimeout
                    /\ r.listeningOut = svc.listeningOut
                    /\ r.listeningTimeout = svc.listeningTimeout
  /\ EngineInSession =>
       LET r == afterEngineEnded(Begin)
       IN  ~r.armedTimeout /\ r.listeningOut \subseteq svc.listeningOut
  /\ svc.engine = "starting" =>
       LET r == afterEngineStarted(Begin)
       IN  ~r.armedTimeout /\ r.listeningOut = svc.listeningOut
  /\ \A id \in svc.restartOut :
       LET r == afterRestartTimeout(Begin, id)
       IN  ~r.armedTimeout /\ r.listeningOut = svc.listeningOut

\* C26 witness: a finalized transcript was heard while listening: its pause
\* timeout and the inactivity timeout armed with it are
\* outstanding
C26_Witness ==
  /\ hist.finals >= 1
  /\ svc.shouldBeListening /\ ~svc.isManuallyStopped
  /\ svc.engine = "active"
  /\ Cardinality(svc.listeningOut) = 1
  /\ svc.timeoutAfterPause
  /\ cmp.pauseOut # {}
  /\ cmp.speechBuffer # <<>>

\* what the callbacks of the service that can run next leave, each with the
\* component as the delivery of its emissions leaves it
EnabledDeliveries ==
  {[s |-> r, c |-> Deliver(BeginC, r.emits)] :
     r \in EnabledEngineResults
            \cup {afterListeningTimeout(Begin, id) : id \in {t \in TimerIds : ListeningTimeoutDue(t)}}}

\* the component after a forced flush of the buffer it held: no pause timeout,
\* an empty buffer, and the buffered text dispatched
FlushedAll(c) ==
  /\ c.pauseOut = {}
  /\ c.speechBuffer = <<>>
  /\ NonSpace(Flatten(c.dispatched)) = NonSpace(cmp.speechBuffer)

\* C27 as the claim states it: whenever the listening state goes from listening
\* to not listening (the stream emits false after true, or the page's flag turns
\* false), for every cause, the pause timer is cancelled and a forced flush of
\* the speech buffer is performed at that transition.
C27_EveryStopTransitionFlushes ==
  \A d \in EnabledDeliveries :
    (\/ svc.isListeningSubject /\ ~d.s.isListeningSubject
     \/ cmp.isListening /\ ~d.c.isListening) => FlushedAll(d.c)

\* C27, what the code keeps: when the stream emits false while the page's flag
\* is still true (a stop by the button, a critical error the page does not
\* show), the pause timer is cancelled and the buffer is flushed.
C27_FlushWhenStillShownListening ==
  \A d \in EnabledDeliveries :
    (cmp.isListening /\ d.s.emits # <<>> /\ ~KeepsListeningState(d.s)) => FlushedAll(d.c)

\* C28: a transcript event, final or interim, cancels the armed pause timeout
\* and arms a new one; when the pause timeout expires the flush is forced: the
\* whole buffer, terminated or not, is dispatched and the buffer is empty. So in
\* streaming mode, once no pause timeout is outstanding, every finalized
\* character heard has been dispatched.
C28_PauseFlushesTheBuffer ==
  /\ cmp.pauseOut \subseteq {cmp.speechPauseTimer}
  /\ \A text \in env.finalTexts \cup env.interimTexts, isFinal \in BOOLEAN :
       LET r == onTranscript(BeginC, text, isFinal)
       IN  r.armedPause /\ r.pauseOut = {r.speechPauseTimer} /\ r.speechPauseTimer # 0
  /\ \A id \in cmp.pauseOut :
       LET r == afterPauseTimer(BeginC, id)
       IN  /\ r.pauseOut = {}
           /\ r.speechBuffer = <<>>
           /\ r.dispatched = flushPieces(cmp.speechBuffer, TRUE)
           /\ NonSpace(Flatten(r.dispatched)) = NonSpace(cmp.speechBuffer)
           /\ Len(r.segments) = Len(cmp.segments) + Len(r.dispatched)
  /\ (~cmp.manualMode /\ cmp.pauseOut = {}) =>
       (cmp.speechBuffer = <<>> /\ hist.sent = hist.heard)

\* C28 witness: "b", which has no sentence end, was heard; the pause timeout
\* expired and "b" is a segment, while the engine listens on
C28_Witness ==
  /\ svc.engine = "active" /\ svc.shouldBeListening
  /\ hist.heard = <<"b">>
  /\ hist.sent = <<"b">>
  /\ cmp.pauseOut = {}
  /\ cmp.speechBuffer = <<>>
  /\ Len(cmp.segments) = 1
  /\ cmp.segments[1].original = <<"b">>

\* C29 as the claim states it: in every reachable state, a speech buffer that
\* is not empty has a pause timeout outstanding.
C29_BufferedTextHasTimer ==
  cmp.speechBuffer # <<>> => cmp.pauseOut # {}

\* C29, amended: until ngOnDestroy, a speech buffer that is not empty has a
\* pause timeout outstanding, whose expiry empties the buffer.
C29_BufferedTextHasTimerWhileAlive ==
  (~cmp.destroyed /\ cmp.speechBuffer # <<>>) =>
    /\ cmp.pauseOut # {}
    /\ \A id \in cmp.pauseOut : afterPauseTimer(BeginC, id).speechBuffer = <<>>

\* C29 witness: the inactivity timeout stopped listening, a last finalized
\* transcript of the ending session was buffered and no stop flushed it: its
\* pause timeout is outstanding
C29_Witness ==
  /\ ~cmp.destroyed
  /\ ~cmp.isListening
  /\ hist.cause = "timeout"
  /\ cmp.speechBuffer = <<"b">>
  /\ cmp.pauseOut # {}

\* ---- the sentences of a text

\* the six sentence terminators: . ! ? and the full-width 。 ！ ？
Terminators == {".", "!", "?", "u3002", "uFF01", "uFF1F"}

\* a text without the spaces that follow a terminator
withoutInterSentenceSpaces(s) ==
  LET positions == [i \in 1..Len(s) |-> i]
      kept == SelectSeq(positions,
                        LAMBDA i : ~(IsSpace(s[i]) /\ i > 1 /\ s[i - 1] \in Terminators))
  IN  [k \in 1..Len(kept) |-> s[kept[k]]]

\* C30: for every input text, each completed sentence ends with one of the six
\* terminators and holds no other terminator, the remainder holds none, and the
\* completed sentences followed by the remainder are the whitespace-normalised
\* input without its inter-sentence spaces: nothing but whitespace is dropped
\* or reordered.
C30_SentencesPartitionTheText ==
  tOut.op = "extract" =>
    LET cleaned == trim(collapseWhitespace(tIn.text))
    IN  /\ \A i \in 1..Len(tOut.chunks) :
             LET sentence == tOut.chunks[i]
             IN  /\ sentence # <<>>
                 /\ sentence[Len(sentence)] \in Terminators
                 /\ \A j \in 1..(Len(sentence) - 1) : sentence[j] \notin Terminators
        /\ \A j \in 1..Len(tOut.rest) : tOut.rest[j] \notin Terminators
        /\ Flatten(tOut.chunks) \o tOut.rest = withoutInterSentenceSpaces(cleaned)
        /\ NonSpace(Flatten(tOut.chunks) \o tOut.rest) = NonSpace(tIn.text)

\* C30 witness: a text with an ASCII and a full-width terminator and an
\* unfinished tail gave two sentences and the tail
C30_Witness ==
  /\ tOut.op = "extract"
  /\ tIn.text = <<"a", "!", " ", "b", "u3002", "c">>
  /\ tOut.chunks = << <<"a", "!">>, <<"b", "u3002">> >>
  /\ tOut.rest = <<"c">>

\* ---- the chunks of a text

\* the text chunkText was applied to
chunkInput == trim(joinWith(tIn.parts, <<" ">>))

\* the characters chunkText consumes for the first chunk of a text t longer than
\* maxChars: up to the last space among the first maxChars characters when that
\* space lies in the last 40% of the budget, else maxChars
firstCut(t, maxChars) ==
  LET spaces == {i \in 1..maxChars : t[i] = " "}
  IN  IF spaces # {} /\ 10 * (Max(spaces) - 1) > 6 * maxChars
        THEN Max(spaces) - 1
        ELSE maxChars

C32_ChunksFitAndCoverTheText ==
  /\ tOut.op = "flush" =>
       /\ \A i \in 1..Len(tOut.chunks) :
            /\ tOut.chunks[i] # <<>>
            /\ Len(tOut.chunks[i]) <= QueryMaxChars
            /\ truncateForQuery(tOut.chunks[i], QueryMaxChars) = tOut.chunks[i]
       /\ NonSpace(Flatten(tOut.chunks)) \o NonSpace(tOut.rest) = NonSpace(tIn.text)
       /\ tIn.force => trim(tOut.rest) = <<>>
  /\ tOut.op = "pack" =>
       /\ \A i \in 1..Len(tOut.chunks) :
            /\ tOut.chunks[i] # <<>>
            /\ Len(tOut.chunks[i]) <= tIn.max
            /\ truncateForQuery(tOut.chunks[i], tIn.max) = tOut.chunks[i]
       /\ NonSpace(Flatten(tOut.chunks)) = NonSpace(Flatten(tIn.parts))

\* C32 witness: a sentence of 461 characters without a space was flushed as a
\* chunk of 450 characters and one of 11
C32_Witness ==
  /\ tOut.op = "flush"
  /\ tIn.text = UnbrokenSentence
  /\ tOut.chunks = <<Repeat("a", QueryMaxChars), Repeat("a", 460 - QueryMaxChars) \o <<".">> >>
  /\ tOut.rest = <<>>

\* ---- the segments and what is shown

\* the ids the component has given out: those of the segments, of the requests
\* in flight and of the responses delivered
AllocatedIds ==
  {cmp.segments[i].id : i \in 1..Len(cmp.segments)}
    \cup {req.id : req \in cmp.requests}
    \cup {res.id : res \in hist.results}

\* C33: appendSegment appends exactly one segment at the end of the list, with
\* an id greater than every id given out before, an empty translation and
\* translating true, and dispatches exactly one translate request for it with
\* the selected language; with no language selected it dispatches none and the
\* segment is at once resolved with an empty translation and translating false.
C33_AppendAddsOneSegmentAndRequest ==
  /\ \A id \in AllocatedIds : id < cmp.nextSegmentId
  /\ \A text \in env.finalTexts, lang \in env.languages \cup {cmp.selectedLanguage} :
       LET c    == [BeginC EXCEPT !.selectedLanguage = lang]
           r    == appendSegment(c, text)
           last == r.segments[Len(r.segments)]
       IN  /\ Len(r.segments) = Len(c.segments) + 1
           /\ SubSeq(r.segments, 1, Len(c.segments)) = c.segments
           /\ last.id = c.nextSegmentId
           /\ r.nextSegmentId = c.nextSegmentId + 1
           /\ last.original = trim(text)
           /\ last.translated = <<>>
           /\ last.translating = (lang # "")
           /\ r.requests \ c.requests =
                IF lang # "" THEN {[id |-> last.id, text |-> last.original, lang |-> lang]}
                ELSE {}
           /\ c.requests \subseteq r.requests
           /\ r.pendingTranslations = c.pendingTranslations + (IF lang # "" THEN 1 ELSE 0)

\* C33 witness: a sentence was dispatched in the language that was selected,
\* the user selected none, and the next sentence became a segment without a
\* request, resolved empty
C33_Witness ==
  /\ cmp.selectedLanguage = ""
  /\ Len(cmp.segments) = 2
  /\ cmp.segments[1].translating
  /\ [id |-> 1, text |-> cmp.segments[1].original, lang |-> "es"] \in cmp.requests
  /\ cmp.segments[2].id = 2
  /\ ~cmp.segments[2].translating
  /\ cmp.segments[2].translated = <<>>
  /\ \A req \in cmp.requests : req.id # 2
  /\ \A res \in hist.results : res.id # 2

\* the rows of the display: the originals of the segments and then the interim
\* text, and per segment its translation or the placeholder
originalRows(c) ==
  [i \in 1..Len(c.segments) |-> c.segments[i].original]
    \o (IF c.interimOriginal # <<>> THEN <<c.interimOriginal>> ELSE <<>>)

translatedRows(c) ==
  [i \in 1..Len(c.segments) |->
     IF c.segments[i].translating /\ c.segments[i].translated = <<>>
       THEN Placeholder ELSE c.segments[i].translated]

\* C34: in streaming mode, after every handler that changes the segments or the
\* interim text, the original text shown is the originals of all segments in
\* order followed by the interim text not yet flushed, and the translated text
\* shown is, segment by segment in order, its translation, or the placeholder
\* exactly when the segment is still translating and its translation is empty
\* (the rows are joined by line breaks, the interim translation is empty).
C34_DisplayIsTheReassembly ==
  [][ (/\ ~cmp'.manualMode
       /\ \/ cmp'.segments # cmp.segments
          \/ cmp'.interimOriginal # cmp.interimOriginal
          \/ cmp'.interimTranslated # cmp.interimTranslated)
      => /\ cmp'.originalText = joinWith(originalRows(cmp'), <<NewLine>>)
         /\ cmp'.translatedText = joinWith(translatedRows(cmp'), <<NewLine>>)
         /\ cmp'.interimTranslated = <<>> ]_vars

\* C34 witness: a translated segment, a segment still translating and an
\* interim text are shown together in streaming mode
C34_Witness ==
  /\ ~cmp.manualMode
  /\ Len(cmp.segments) = 2
  /\ ~cmp.segments[1].translating /\ cmp.segments[1].translated # <<>>
  /\ cmp.segments[2].translating
  /\ cmp.interimOriginal # <<>>
  /\ cmp.originalText =
       cmp.segments[1].original \o <<NewLine>> \o cmp.segments[2].original
         \o <<NewLine>> \o cmp.interimOriginal
  /\ cmp.translatedText = cmp.segments[1].translated \o <<NewLine>> \o Placeholder

\* the translate requests dispatched and not yet resolved, of both kinds
InFlight(c) == Cardinality(c.requests) + Cardinality(c.manualRequests)

\* C35: pendingTranslations is the number of translate requests dispatched, for
\* segments and for typed text, that have not resolved yet: one more per
\* dispatch, one less per resolution (success, soft error or failure), never
\* below 0; and isTranslating is true exactly when the counter is above 0.
C35_CounterCountsRequestsInFlight ==
  /\ cmp.pendingTranslations = InFlight(cmp)
  /\ cmp.pendingTranslations >= 0
  /\ cmp.isTranslating <=> cmp.pendingTranslations > 0
  /\ \A text \in env.finalTexts :
       cmp.selectedLanguage # "" =>
         appendSegment(BeginC, text).pendingTranslations = cmp.pendingTranslations + 1
  /\ \A text \in env.typedTexts :
       translateTextOnce(BeginC, text).pendingTranslations = cmp.pendingTranslations + 1
  /\ \A req \in cmp.requests :
       /\ \A result \in TranslateResults(req.text) :
            afterTranslateNext(BeginC, req, result).pendingTranslations
              = cmp.pendingTranslations - 1
       /\ afterTranslateError(BeginC, req).pendingTranslations = cmp.pendingTranslations - 1
  /\ \A req \in cmp.manualRequests :
       /\ \A result \in TranslateResults(req.text) :
            afterManualNext(BeginC, req, result).pendingTranslations
              = cmp.pendingTranslations - 1
       /\ afterManualError(BeginC, req).pendingTranslations = cmp.pendingTranslations - 1

\* C35 witness: a request of a segment and a request of typed text are in flight
\* together after an earlier request has resolved, and the counter is 2
C35_Witness ==
  /\ cmp.pendingTranslations = 2
  /\ cmp.isTranslating
  /\ Cardinality(cmp.requests) = 1
  /\ Cardinality(cmp.manualRequests) = 1
  /\ hist.results # {}

\* the ids of the segments shown
SegmentIds(c) == {c.segments[i].id : i \in 1..Len(c.segments)}

\* the outcomes of a segment's request: the component after each response
ResponsesTo(req) ==
  {afterTranslateNext(BeginC, req, result) : result \in TranslateResults(req.text)}
    \cup {afterTranslateError(BeginC, req)}

\* a request whose segment is gone
Late(req) == req \in cmp.requests /\ req.id \notin SegmentIds(cmp)

\* a response touches at most the segment of its request
OnlyItsSegment(req, r) ==
  /\ Len(r.segments) = Len(cmp.segments)
  /\ \A i \in 1..Len(cmp.segments) :
       IF cmp.segments[i].id = req.id
         THEN /\ cmp.segments[i].original = req.text
              /\ r.segments[i].id = req.id
              /\ r.segments[i].original = req.text
         ELSE r.segments[i] = cmp.segments[i]

\* C36 (as the code has it): segment ids are never reused, also across clearText
\* and the mode switches: no two segments share an id and every id of a segment
\* or of a request in flight is below the next id to give out. A response whose
\* segment was cleared leaves the segment list unchanged and decrements the
\* counter, and a response is applied to no segment other than the one it was
\* dispatched for.
C36_IdsNeverReused ==
  /\ \A i, j \in 1..Len(cmp.segments) : cmp.segments[i].id = cmp.segments[j].id => i = j
  /\ \A id \in SegmentIds(cmp) \cup {req.id : req \in cmp.requests} : id < cmp.nextSegmentId
  /\ \A req, other \in cmp.requests : req.id = other.id => req = other
  /\ clearText(BeginC).nextSegmentId = cmp.nextSegmentId
  /\ \A text \in env.typedTexts : onTextChange(BeginC, text).nextSegmentId = cmp.nextSegmentId
  /\ \A text \in env.finalTexts : onTranscript(BeginC, text, TRUE).nextSegmentId >= cmp.nextSegmentId
  /\ \A req \in cmp.requests : \A r \in ResponsesTo(req) :
       /\ OnlyItsSegment(req, r)
       /\ r.nextSegmentId = cmp.nextSegmentId
       /\ Late(req) => /\ r.segments = cmp.segments
                       /\ r.pendingTranslations = cmp.pendingTranslations - 1

\* C36 (as stated): a response that arrives after its segment was cleared only
\* decrements the counter of requests in flight.
C36_LateResponseOnlyDecrements ==
  \A req \in cmp.requests : \A r \in ResponsesTo(req) :
    Late(req) => /\ r.segments = cmp.segments
                 /\ r.errorMessage = cmp.errorMessage

\* C36 witness: the page was cleared while the first sentence was being
\* translated, the next sentence got the next id, and the response to the first
\* request arrived after the clear (its error marker set the message that the
\* clear had emptied) and left the new segment as it was
C36_Witness ==
  /\ hist.clears = 1
  /\ Len(cmp.segments) = 1
  /\ cmp.segments[1].id = 2
  /\ cmp.segments[1].translating
  /\ cmp.requests = {[id |-> 2, text |-> cmp.segments[1].original, lang |-> "es"]}
  /\ cmp.pendingTranslations = 1
  /\ hist.typed = 0
  /\ cmp.errorMessage = "translation-unavailable"

\* C37: in streaming mode the translated text shown is always the reassembly of
\* the current segments: a response to a request of typed text that was
\* dispatched before the switch to streaming mode and arrives after it does not
\* overwrite or alter what is shown.
C37_ManualResponseKeepsStreamingDisplay ==
  /\ ~cmp.manualMode => cmp.translatedText = joinWith(translatedRows(cmp), <<NewLine>>)
  /\ ~cmp.manualMode =>
       \A req \in cmp.manualRequests :
         /\ \A result \in TranslateResults(req.text) :
              afterManualNext(BeginC, req, result).translatedText = cmp.translatedText
         /\ afterManualError(BeginC, req).translatedText = cmp.translatedText

\* C38: while the component is in manual-typing mode the segment list stays
\* empty and no chunk of speech is dispatched for translation: the switch to
\* manual typing discards the buffered speech and its pause timer, so the expiry
\* of the pause timer after the switch creates no segment.
C38_ManualModeHasNoSegments ==
  cmp.manualMode =>
    /\ cmp.segments = <<>>
    /\ \A id \in TimerIds :
         cmp.speechPauseTimer = id =>
           LET r == afterPauseTimer(BeginC, id)
           IN  r.segments = <<>> /\ r.requests = cmp.requests

\* the segment of an id is shown and still translating
Translating(c, id) ==
  \E i \in 1..Len(c.segments) : c.segments[i].id = id /\ c.segments[i].translating

\* C39: every segment is resolved exactly once. With every translate request
\* delivering one success or one failure, every segment created and not cleared
\* eventually has translating false; and a segment whose translating is false
\* never becomes translating again and its translation never changes afterwards.
C39_EverySegmentResolvedOnce ==
  /\ \A id \in ResolveIds : Translating(cmp, id) ~> ~Translating(cmp, id)
  /\ [][ \A i \in 1..Len(cmp.segments) : \A j \in 1..Len(cmp'.segments) :
           (cmp'.segments[j].id = cmp.segments[i].id /\ ~cmp.segments[i].translating)
             => cmp'.segments[j] = cmp.segments[i] ]_vars
  /\ [](\A i \in 1..Len(cmp.segments) :
          cmp.segments[i].translating
            <=> \E req \in cmp.requests : req.id = cmp.segments[i].id)

\* C39 witness: two segments are resolved, one with its translation and one
\* empty after a failure, and no request is left
C39_Witness ==
  /\ Len(cmp.segments) = 2
  /\ ~cmp.segments[1].translating /\ cmp.segments[1].translated # <<>>
  /\ ~cmp.segments[2].translating /\ cmp.segments[2].translated = <<>>
  /\ cmp.requests = {}
  /\ cmp.pendingTranslations = 0

\* C40: with read-aloud enabled, a segment of speech whose translation succeeds
\* with a text that is not empty has speak(text, language) called with that
\* translation.
C40_TranslatedSegmentsAreSpoken ==
  cmp.enableTextToSpeech =>
    /\ \A i \in 1..Len(cmp.segments) :
         (~cmp.segments[i].translating /\ cmp.segments[i].translated # <<>>)
           => cmp.segments[i].translated \in cmp.spoken
    /\ \A req \in cmp.requests : \A result \in TranslateResults(req.text) :
         (~result.error /\ result.translatedText # <<>> /\ ~Late(req))
           => result.translatedText \in afterTranslateNext(BeginC, req, result).spoken

====
